---------------------------- MODULE Spec2Model ----------------------------
(***************************************************************************)
(* A model of domain_crawler.py: the crawl engine (crawl_domains with the  *)
(* URL similarity matcher), the DNS validator                              *)
(* (validate_domain_dns_with_retry), the registry reconciler               *)
(* (update_output_file_incrementally) and the run orchestrator (main).     *)
(*                                                                         *)
(* Python strings are TLA+ strings; TLC evaluates Len, Head, Tail, SubSeq  *)
(* and \o on them, so urlparse, str.lower, str.replace, parse_qs and the   *)
(* path-similarity scores are computed character by character, as the      *)
(* library code computes them.                                             *)
(*                                                                         *)
(* Each component has a specification of its own (SpecCrawl, SpecDns,      *)
(* SpecReconcile, SpecMain); the variables of the other components keep    *)
(* their idle values in it.                                                *)
(***************************************************************************)
EXTENDS Integers, Sequences, FiniteSets, TLC

VARIABLES
    \* crawl_domains
    start_url, max_pages, have_rapidfuzz, urls_to_crawl, crawled_urls,
    found_subdomains, found_external_domains, soup, cur_url, pending_links,
    crawl_pc,
    \* validate_domain_dns_with_retry and its caller check_domain
    max_retries, conservative_mode, attempt, dns_pc, dns_result, dns_log, sleeps,
    verdict,
    \* update_output_file_incrementally and the files it touches
    fqdn_list, existing_domains, dead_domains, new_domains, output_file, temp_file,
    backup, backup_file, pre_run, lines_written, faults, rec_pc,
    \* main: the seed URLs of a batch
    urls_to_process, concurrency, output, task, merged, registry_updated, main_pc,
    \* normalize_url applied twice
    norm_url, normalized, renormalized, norm_pc,
    \* is_similar_url applied both ways
    sim_url1, sim_url2, rapidfuzz_installed, similar12, similar21, sim_pc,
    \* extract_parent_domains
    pd_domains, pd_parents, pd_pc,
    \* categorize_domains
    cat_base_domain, subdomains, external_domains, related_domains,
    third_party_domains, parent_domains, filtered_parent_domains, cat_pc,
    \* process_single_url
    ds_url, dual_stack, ipv4_result, ipv6_result, ds_returned, ds_pc,
    \* the filter of the seed URLs
    skip_url, skip_existing, dual_stack_mode, should_skip, skip_pc,
    \* process_single_url_with_ip_version
    page_url, html_content, browser, embedded_domains, crawl_invoked, page_found,
    page_returned, page_error, page_pc,
    \* main: one run, from the loading of the registry to its update
    run_output, run_dual_stack, run_concurrency, run_seeds, known_seeds,
    dead_found, seed_task, dns_task, writers, registry_writes, run_pc,
    \* a registry written and loaded again
    rt_fqdn_list, rt_domains, rt_backup_file, rt_file, rt_loaded, rt_pc,
    \* the validation of one batch of domains
    val_kind, val_domains, val_waiting, val_holding, val_valid, val_dead, val_pc,
    \* main: the seed URLs behind the semaphore of browser instances
    bt_requested, bt_urls, bt_concurrency, bt_waiting, bt_in_progress, bt_ended, bt_pc,
    \* categorize_domains, its lists kept as lists
    cl_base_domain, cl_subdomains, cl_external_domains, cl_related, cl_third_party,
    cl_filtered, cl_returned, cl_pc,
    \* main: the discovered domains on their way to the registry
    fl_output, fl_registry, fl_existing, fl_dead, fl_discovered, fl_verdicts, fl_final,
    fl_new_domains, fl_written, fl_pc

crawlVars == << start_url, max_pages, have_rapidfuzz, urls_to_crawl, crawled_urls,
                found_subdomains, found_external_domains, soup, cur_url,
                pending_links, crawl_pc >>

dnsVars == << max_retries, conservative_mode, attempt, dns_pc, dns_result, dns_log,
              sleeps, verdict >>

recVars == << fqdn_list, existing_domains, dead_domains, new_domains, output_file,
              temp_file, backup, backup_file, pre_run, lines_written, faults, rec_pc >>

mainVars == << urls_to_process, concurrency, output, task, merged, registry_updated,
               main_pc >>

normVars == << norm_url, normalized, renormalized, norm_pc >>

simVars == << sim_url1, sim_url2, rapidfuzz_installed, similar12, similar21, sim_pc >>

parentsVars == << pd_domains, pd_parents, pd_pc >>

catVars == << cat_base_domain, subdomains, external_domains, related_domains,
              third_party_domains, parent_domains, filtered_parent_domains, cat_pc >>

dsVars == << ds_url, dual_stack, ipv4_result, ipv6_result, ds_returned, ds_pc >>

skipVars == << skip_url, skip_existing, dual_stack_mode, should_skip, skip_pc >>

pageVars == << page_url, html_content, browser, embedded_domains, crawl_invoked,
               page_found, page_returned, page_error, page_pc >>

runVars == << run_output, run_dual_stack, run_concurrency, run_seeds, known_seeds,
              dead_found, seed_task, dns_task, writers, registry_writes, run_pc >>

rtVars == << rt_fqdn_list, rt_domains, rt_backup_file, rt_file, rt_loaded, rt_pc >>
valVars == << val_kind, val_domains, val_waiting, val_holding, val_valid, val_dead, val_pc >>
btVars == << bt_requested, bt_urls, bt_concurrency, bt_waiting, bt_in_progress, bt_ended,
            bt_pc >>
clVars == << cl_base_domain, cl_subdomains, cl_external_domains, cl_related,
            cl_third_party, cl_filtered, cl_returned, cl_pc >>
flVars == << fl_output, fl_registry, fl_existing, fl_dead, fl_discovered, fl_verdicts,
            fl_final, fl_new_domains, fl_written, fl_pc >>

\* The variables of the other components, for each component
exceptCrawl == << dnsVars, recVars, mainVars, normVars, simVars, parentsVars,
                  catVars, dsVars, skipVars, pageVars, runVars, rtVars, valVars,
                  btVars, clVars, flVars >>
exceptDns == << crawlVars, recVars, mainVars, normVars, simVars, parentsVars,
                catVars, dsVars, skipVars, pageVars, runVars, rtVars, valVars,
                btVars, clVars, flVars >>
exceptRec == << crawlVars, dnsVars, mainVars, normVars, simVars, parentsVars,
                catVars, dsVars, skipVars, pageVars, runVars, rtVars, valVars,
                btVars, clVars, flVars >>
exceptMain == << crawlVars, dnsVars, recVars, normVars, simVars, parentsVars,
                 catVars, dsVars, skipVars, pageVars, runVars, rtVars, valVars,
                 btVars, clVars, flVars >>
exceptNorm == << crawlVars, dnsVars, recVars, mainVars, simVars, parentsVars,
                 catVars, dsVars, skipVars, pageVars, runVars, rtVars, valVars,
                 btVars, clVars, flVars >>
exceptSim == << crawlVars, dnsVars, recVars, mainVars, normVars, parentsVars,
                catVars, dsVars, skipVars, pageVars, runVars, rtVars, valVars,
                btVars, clVars, flVars >>
exceptParents == << crawlVars, dnsVars, recVars, mainVars, normVars, simVars,
                    catVars, dsVars, skipVars, pageVars, runVars, rtVars, valVars,
                    btVars, clVars, flVars >>
exceptCat == << crawlVars, dnsVars, recVars, mainVars, normVars, simVars,
                parentsVars, dsVars, skipVars, pageVars, runVars, rtVars, valVars,
                btVars, clVars, flVars >>
exceptDs == << crawlVars, dnsVars, recVars, mainVars, normVars, simVars, parentsVars,
               catVars, skipVars, pageVars, runVars, rtVars, valVars, btVars, clVars,
               flVars >>
exceptSkip == << crawlVars, dnsVars, recVars, mainVars, normVars, simVars,
                 parentsVars, catVars, dsVars, pageVars, runVars, rtVars, valVars,
                 btVars, clVars, flVars >>
exceptPage == << crawlVars, dnsVars, recVars, mainVars, normVars, simVars,
                 parentsVars, catVars, dsVars, skipVars, runVars, rtVars, valVars,
                 btVars, clVars, flVars >>
exceptRun == << crawlVars, dnsVars, recVars, mainVars, normVars, simVars,
                parentsVars, catVars, dsVars, skipVars, pageVars, rtVars, valVars,
                btVars, clVars, flVars >>
exceptRt == << crawlVars, dnsVars, recVars, mainVars, normVars, simVars, parentsVars,
               catVars, dsVars, skipVars, pageVars, runVars, valVars, btVars, clVars,
               flVars >>
exceptVal == << crawlVars, dnsVars, recVars, mainVars, normVars, simVars,
                parentsVars, catVars, dsVars, skipVars, pageVars, runVars, rtVars,
                btVars, clVars, flVars >>
exceptBt == << crawlVars, dnsVars, recVars, mainVars, normVars, simVars, parentsVars,
               catVars, dsVars, skipVars, pageVars, runVars, rtVars, valVars, clVars,
               flVars >>
exceptCl == << crawlVars, dnsVars, recVars, mainVars, normVars, simVars, parentsVars,
               catVars, dsVars, skipVars, pageVars, runVars, rtVars, valVars, btVars,
               flVars >>
exceptFl == << crawlVars, dnsVars, recVars, mainVars, normVars, simVars, parentsVars,
               catVars, dsVars, skipVars, pageVars, runVars, rtVars, valVars, btVars,
               clVars >>

-----------------------------------------------------------------------------
(* Python str primitives *)

Ch(s, i) == SubSeq(s, i, i)

StartsWith(s, p) == Len(s) >= Len(p) /\ SubSeq(s, 1, Len(p)) = p

EndsWith(s, p) == Len(s) >= Len(p) /\ SubSeq(s, Len(s) - Len(p) + 1, Len(s)) = p

\* str.find(sub, from): the least index >= from where sub occurs, 0 when none
\* (indices are 1-based here).
RECURSIVE FindFrom(_, _, _)
FindFrom(s, sub, from) ==
    IF from + Len(sub) - 1 > Len(s) THEN 0
    ELSE IF SubSeq(s, from, from + Len(sub) - 1) = sub THEN from
    ELSE FindFrom(s, sub, from + 1)

Find(s, sub) == FindFrom(s, sub, 1)

Contains(s, sub) == Find(s, sub) # 0

\* str.replace(old, new): every non-overlapping occurrence, left to right.
RECURSIVE Replace(_, _, _)
Replace(s, old, new) ==
    IF Find(s, old) = 0 THEN s
    ELSE SubSeq(s, 1, Find(s, old) - 1) \o new
         \o Replace(SubSeq(s, Find(s, old) + Len(old), Len(s)), old, new)

UpperAlpha == "ABCDEFGHIJKLMNOPQRSTUVWXYZ"
LowerAlpha == "abcdefghijklmnopqrstuvwxyz"
Digits == "0123456789"

IsLowerCh(c) == Len(c) = 1 /\ Contains(LowerAlpha, c)
IsUpperCh(c) == Len(c) = 1 /\ Contains(UpperAlpha, c)
IsAlphaCh(c) == IsLowerCh(c) \/ IsUpperCh(c)
IsDigitCh(c) == Len(c) = 1 /\ Contains(Digits, c)

\* The lower-case letter of each upper-case one
LowerOf == [ c \in { Ch(UpperAlpha, i) : i \in 1..26 } |->
               Ch(LowerAlpha, Find(UpperAlpha, c)) ]

LowerCh(c) == IF c \in DOMAIN LowerOf THEN LowerOf[c] ELSE c

\* str.lower()
RECURSIVE Lower(_)
Lower(s) == IF s = "" THEN "" ELSE LowerCh(Head(s)) \o Lower(Tail(s))

\* str.rstrip('/')
RECURSIVE RStripSlash(_)
RStripSlash(s) ==
    IF s # "" /\ Ch(s, Len(s)) = "/" THEN RStripSlash(SubSeq(s, 1, Len(s) - 1)) ELSE s

\* str.split(sep): the pieces between the occurrences of sep.
RECURSIVE Split(_, _)
Split(s, sep) ==
    IF Find(s, sep) = 0 THEN << s >>
    ELSE << SubSeq(s, 1, Find(s, sep) - 1) >>
         \o Split(SubSeq(s, Find(s, sep) + Len(sep), Len(s)), sep)

\* str.split(sep, 1)
Split1(s, sep) ==
    IF Find(s, sep) = 0 THEN << s >>
    ELSE << SubSeq(s, 1, Find(s, sep) - 1), SubSeq(s, Find(s, sep) + Len(sep), Len(s)) >>

\* sep.join(parts)
RECURSIVE Join(_, _)
Join(parts, sep) ==
    IF parts = << >> THEN ""
    ELSE IF Len(parts) = 1 THEN parts[1]
    ELSE parts[1] \o sep \o Join(Tail(parts), sep)

Range(f) == { f[i] : i \in DOMAIN f }


Max(a, b) == IF a >= b THEN a ELSE b
Min(a, b) == IF a <= b THEN a ELSE b

\* The characters the model's strings use, in code-point order: Python
\* compares strings code point by code point.
AsciiOrder == " #%&+-./0123456789:=?ABCDEFGHIJKLMNOPQRSTUVWXYZ_abcdefghijklmnopqrstuvwxyz"

Ord(c) == Find(AsciiOrder, c)

\* a < b for Python strings
RECURSIVE StrLess(_, _)
StrLess(a, b) ==
    IF b = "" THEN FALSE
    ELSE IF a = "" THEN TRUE
    ELSE IF Head(a) = Head(b) THEN StrLess(Tail(a), Tail(b))
    ELSE Ord(Head(a)) < Ord(Head(b))

\* sorted(S) for a set of strings
RECURSIVE SortedStrings(_)
MinString(S) == CHOOSE x \in S : \A y \in S \ {x} : StrLess(x, y)

SortedStrings(S) ==
    IF S = {} THEN << >>
    ELSE << MinString(S) >> \o SortedStrings(S \ { MinString(S) })

-----------------------------------------------------------------------------
(* urllib.parse *)

SchemeChars == LowerAlpha \o UpperAlpha \o Digits \o "+-."

RECURSIVE AllIn(_, _)
AllIn(s, chars) == s = "" \/ (Contains(chars, Head(s)) /\ AllIn(Tail(s), chars))

\* The least index of s holding one of chars, Len(s) + 1 when none.
RECURSIVE FirstOf(_, _, _)
FirstOf(s, chars, from) ==
    IF from > Len(s) THEN Len(s) + 1
    ELSE IF Contains(chars, Ch(s, from)) THEN from
    ELSE FirstOf(s, chars, from + 1)

\* urlparse(url): scheme, netloc, path, query and fragment as urlsplit cuts
\* them, one step after the other (no ';' parameters: the model's URLs hold
\* none).
SplitQuery(scheme, netloc, rest, fragment, q) ==
    [ scheme   |-> scheme,
      netloc   |-> netloc,
      path     |-> IF q = 0 THEN rest ELSE SubSeq(rest, 1, q - 1),
      query    |-> IF q = 0 THEN "" ELSE SubSeq(rest, q + 1, Len(rest)),
      fragment |-> fragment ]

SplitFragment(scheme, netloc, rest, h) ==
    IF h = 0 THEN SplitQuery(scheme, netloc, rest, "", Find(rest, "?"))
    ELSE SplitQuery(scheme, netloc, SubSeq(rest, 1, h - 1),
                    SubSeq(rest, h + 1, Len(rest)), Find(SubSeq(rest, 1, h - 1), "?"))

SplitNetlocAt(scheme, afterSl, delim) ==
    SplitFragment(scheme, SubSeq(afterSl, 1, delim - 1),
                  SubSeq(afterSl, delim, Len(afterSl)),
                  Find(SubSeq(afterSl, delim, Len(afterSl)), "#"))

SplitNetloc(scheme, rest) ==
    IF StartsWith(rest, "//")
    THEN SplitNetlocAt(scheme, SubSeq(rest, 3, Len(rest)),
                       FirstOf(SubSeq(rest, 3, Len(rest)), "/?#", 1))
    ELSE SplitFragment(scheme, "", rest, Find(rest, "#"))

SplitScheme(url, i) ==
    IF /\ i > 1
       /\ IsAlphaCh(Ch(url, 1))
       /\ AllIn(SubSeq(url, 1, i - 1), SchemeChars)
    THEN SplitNetloc(Lower(SubSeq(url, 1, i - 1)), SubSeq(url, i + 1, Len(url)))
    ELSE SplitNetloc("", url)

urlparse(url) == SplitScheme(url, Find(url, ":"))

\* The index of the last '/' of p[1..k], 0 when none
RECURSIVE LastSlash(_, _)
LastSlash(p, k) ==
    IF k = 0 THEN 0 ELSE IF Ch(p, k) = "/" THEN k ELSE LastSlash(p, k - 1)

\* urljoin(base, link) for the links the model's pages hold: an absolute URL,
\* a network-path reference (//host/p), an absolute path (/p), an empty link
\* and a relative path without dot segments.
JoinRelative(b, link, last) ==
    b.scheme \o "://" \o b.netloc
             \o (IF last = 0 THEN "/" ELSE SubSeq(b.path, 1, last)) \o link

JoinParsed(base, link, b, l) ==
    IF link = "" THEN base
    ELSE IF l.scheme # "" /\ l.scheme # b.scheme THEN link
    ELSE IF l.netloc # "" THEN
         (IF l.scheme = "" THEN b.scheme \o ":" \o link ELSE link)
    ELSE IF l.scheme # "" THEN link
    ELSE IF StartsWith(link, "/") THEN b.scheme \o "://" \o b.netloc \o link
    ELSE JoinRelative(b, link, LastSlash(b.path, Len(b.path)))

urljoin(base, link) == JoinParsed(base, link, urlparse(base), urlparse(link))

\* urllib.parse.unquote on the escapes the model's URLs hold.
UnquoteHex(hex) ==
    CASE hex = "26" -> "&"
      [] hex \in {"3D", "3d"} -> "="
      [] hex \in {"2F", "2f"} -> "/"
      [] hex = "20" -> " "
      [] hex = "25" -> "%"
      [] OTHER -> ""

RECURSIVE unquote(_)
unquote(s) ==
    IF s = "" THEN ""
    ELSE IF Head(s) = "%" /\ Len(s) >= 3 /\ UnquoteHex(SubSeq(s, 2, 3)) # ""
    THEN UnquoteHex(SubSeq(s, 2, 3)) \o unquote(SubSeq(s, 4, Len(s)))
    ELSE Head(s) \o unquote(Tail(s))

\* parse_qsl(query): the (name, value) pairs in order; a field without '=' or
\* with a blank value is dropped (keep_blank_values is off).
QslField(nv) ==
    IF Len(nv) = 2 /\ nv[2] # ""
    THEN << << unquote(Replace(nv[1], "+", " ")), unquote(Replace(nv[2], "+", " ")) >> >>
    ELSE << >>

RECURSIVE QslOf(_)
QslOf(fields) ==
    IF fields = << >> THEN << >>
    ELSE QslField(Split1(Head(fields), "=")) \o QslOf(Tail(fields))

parse_qsl(query) == QslOf(Split(query, "&"))

\* The values of name k in qsl, in order
RECURSIVE ValuesOf(_, _)
ValuesOf(qsl, k) ==
    IF qsl = << >> THEN << >>
    ELSE (IF Head(qsl)[1] = k THEN << Head(qsl)[2] >> ELSE << >>) \o ValuesOf(Tail(qsl), k)

\* parse_qs(query): the dict name -> list of values, a function on its keys.
DictOf(qsl) == [ k \in { qsl[i][1] : i \in DOMAIN qsl } |-> ValuesOf(qsl, k) ]

parse_qs(query) == DictOf(parse_qsl(query))

\* dict.keys() in insertion order
RECURSIVE KeyOrder(_, _)
KeyOrder(qsl, seen) ==
    IF qsl = << >> THEN << >>
    ELSE IF Head(qsl)[1] \in seen THEN KeyOrder(Tail(qsl), seen)
    ELSE << Head(qsl)[1] >> \o KeyOrder(Tail(qsl), seen \cup {Head(qsl)[1]})

-----------------------------------------------------------------------------
(* URL normalizer and similarity matcher *)

\* Lines 148-149: query_params[key.lower()] = values[0].lower(), the keys
\* taken in the dict's order: a later key that lowers to the same name
\* overwrites an earlier one.
RECURSIVE QueryParams(_, _, _)
QueryParams(order, params, acc) ==
    IF order = << >> THEN acc
    ELSE QueryParams(Tail(order), params,
                     [ k \in DOMAIN acc \cup { Lower(Head(order)) } |->
                         IF k = Lower(Head(order)) THEN Lower(params[Head(order)][1])
                         ELSE acc[k] ])

\* Lines 152-156: '&'.join(f"{k}={v}" for k, v in sorted(query_params.items()))
RECURSIVE JoinParams(_, _)
JoinParams(sorted_keys, query_params) ==
    IF sorted_keys = << >> THEN ""
    ELSE Head(sorted_keys) \o "=" \o query_params[Head(sorted_keys)]
         \o (IF Len(sorted_keys) > 1 THEN "&" ELSE "")
         \o JoinParams(Tail(sorted_keys), query_params)

NormalizedQuery(query_params) ==
    JoinParams(SortedStrings(DOMAIN query_params), query_params)

\* Lines 159-163
Reconstruct(scheme, domain, path, normalized_query) ==
    scheme \o "://" \o domain \o path
           \o (IF normalized_query # "" THEN "?" \o normalized_query ELSE "")

NormalizeParsed(parsed, qsl) ==
    Reconstruct(parsed.scheme,
                Replace(Lower(parsed.netloc), "www.", ""),
                Lower(RStripSlash(parsed.path)),
                NormalizedQuery(QueryParams(KeyOrder(qsl, {}), DictOf(qsl), << >>)))

\* normalize_url(url)
normalize_url(url) == NormalizeParsed(urlparse(url), parse_qsl(urlparse(url).query))

\* re.match(r'^/[a-z]{2}-[a-z]{2}(/.*)?$', path)
MatchesLangPattern(path) ==
    /\ Len(path) >= 6
    /\ Ch(path, 1) = "/"
    /\ IsLowerCh(Ch(path, 2)) /\ IsLowerCh(Ch(path, 3))
    /\ Ch(path, 4) = "-"
    /\ IsLowerCh(Ch(path, 5)) /\ IsLowerCh(Ch(path, 6))
    /\ (Len(path) = 6 \/ Ch(path, 7) = "/")

\* re.sub(r'^/[a-z]{2}-[a-z]{2}', '', path), for a path the pattern matches
StripLang(path) == SubSeq(path, 7, Len(path))

\* The length of a longest common subsequence: rapidfuzz's fuzz.ratio is the
\* normalized Indel similarity, 100 * 2 * LCS / (len1 + len2).
RECURSIVE LCS(_, _)
LCS(a, b) ==
    IF a = "" \/ b = "" THEN 0
    ELSE IF Head(a) = Head(b) THEN 1 + LCS(Tail(a), Tail(b))
    ELSE Max(LCS(Tail(a), b), LCS(a, Tail(b)))

\* fuzz.ratio(path1, path2) >= similarity_threshold * 100, threshold 0.8
FuzzRatioAtLeastThreshold(path1, path2) ==
    200 * LCS(path1, path2) >= 80 * (Len(path1) + Len(path2))

\* The ImportError branch: characters equal at equal positions over the longer
\* length, >= 0.8
PositionalAtLeastThreshold(path1, path2) ==
    10 * Cardinality({ i \in 1..Min(Len(path1), Len(path2)) : Ch(path1, i) = Ch(path2, i) })
        >= 8 * Max(Len(path1), Len(path2))

common_variation_params == { "feed", "view", "feedviewtype", "sort", "time", "layout" }

\* Lines 215-216: set(k.lower() for k in params.keys())
LowerKeys(params) == { Lower(k) : k \in DOMAIN params }

\* Lines 221-222: the params without the variation parameters
FilteredParams(params) ==
    [ k \in { x \in DOMAIN params : Lower(x) \notin common_variation_params } |-> params[k] ]

\* A query-variation rule that looks for a variation parameter in the first URL only
SimilarQueries_first_only(params1, params2) ==
    /\ \E param \in common_variation_params : param \in LowerKeys(params1)
    /\ FilteredParams(params1) = FilteredParams(params2)

\* Lines 209-224: the query-variation rule
SimilarQueries(params1, params2) ==
    /\ \E param \in common_variation_params :
           param \in LowerKeys(params1) \/ param \in LowerKeys(params2)
    /\ FilteredParams(params1) = FilteredParams(params2)

\* Lines 177-224, on the two lower-cased paths without trailing slashes
SimilarPaths(path1, path2, query1, query2, rapidfuzz) ==
    \/ /\ MatchesLangPattern(path1) /\ MatchesLangPattern(path2)
       /\ StripLang(path1) = StripLang(path2)
    \/ /\ path1 # "" /\ path2 # ""
       /\ IF rapidfuzz THEN FuzzRatioAtLeastThreshold(path1, path2)
          ELSE PositionalAtLeastThreshold(path1, path2)
    \/ /\ path1 = path2
       /\ SimilarQueries(parse_qs(query1), parse_qs(query2))

SimilarParsed(parsed1, parsed2, rapidfuzz) ==
    /\ Lower(parsed1.netloc) = Lower(parsed2.netloc)
    /\ SimilarPaths(Lower(RStripSlash(parsed1.path)), Lower(RStripSlash(parsed2.path)),
                    parsed1.query, parsed2.query, rapidfuzz)

\* is_similar_url(url1, url2); rapidfuzz says whether the import succeeds
is_similar_url(url1, url2, rapidfuzz) ==
    SimilarParsed(urlparse(url1), urlparse(url2), rapidfuzz)

-----------------------------------------------------------------------------
(* crawl_domains *)

\* Bounds of the crawl: the largest max_pages tried and the most links
\* (href/src attributes) one page holds.
MaxPages == 2
MaxLinks == 2

\* The seed URLs crawled and the href/src values the pages may hold.
StartUrls == { "https://ex.co" }

Hrefs == { "/", "/a", "/A", "https://www.ex.co/b", "https://cdn.net/x", "/login",
           "https://notex.co/x.js" }

\* soup before the first page is parsed: the name is unbound
Unbound == << "unbound" >>

RECURSIVE SeqsUpTo(_, _)
SeqsUpTo(S, n) ==
    IF n = 0 THEN { << >> }
    ELSE LET shorter == SeqsUpTo(S, n - 1)
         IN  shorter \cup { Append(s, x) : s \in { q \in shorter : Len(q) = n - 1 }, x \in S }

\* What page.content() may parse to: the href/src values of the page's a,
\* link, script and img tags, in find_all order.
Pages == SeqsUpTo(Hrefs, MaxLinks)

ignored_extensions == { ".png", ".jpg", ".css", ".js", ".ico", ".svg", ".xml", ".pdf", ".zip" }

problematic_paths == { "/submit", "/notifications", "/settings", "/account", "/login", "/register" }

\* Every URL a crawl of the model can meet: the seeds and what the links
\* resolve to against them.
RECURSIVE UrlClosure(_)
UrlClosure(S) ==
    IF { urljoin(b, h) : b \in S, h \in Hrefs } \subseteq S THEN S
    ELSE UrlClosure(S \cup { urljoin(b, h) : b \in S, h \in Hrefs })

CrawlUrls == UrlClosure(StartUrls)

\* The string functions of the crawl, tabulated once over CrawlUrls (the
\* values are those of the operators; the tables only save recomputing them
\* in every state).
SimilarTo == [ rapidfuzz \in BOOLEAN |-> [ a \in CrawlUrls |->
                 { b \in CrawlUrls : is_similar_url(a, b, rapidfuzz) } ] ]

NetlocOf == [ u \in CrawlUrls |-> urlparse(u).netloc ]

base_domain == Replace(NetlocOf[start_url], "www.", "")

\* A should_skip_url that forgets the queued URLs
should_skip_url_crawled_only(url, crawled, queue, rapidfuzz) ==
    \E crawled_url \in crawled : crawled_url \in SimilarTo[rapidfuzz][url]

\* should_skip_url(url, crawled_urls, urls_to_crawl)
should_skip_url(url, crawled, queue, rapidfuzz) ==
    \/ \E crawled_url \in crawled : crawled_url \in SimilarTo[rapidfuzz][url]
    \/ \E i \in DOMAIN queue : queue[i] \in SimilarTo[rapidfuzz][url]

\* A loop condition off by one
LoopCondition_le == urls_to_crawl # << >> /\ Cardinality(crawled_urls) <= max_pages

\* The loop condition of line 257
LoopCondition == urls_to_crawl # << >> /\ Cardinality(crawled_urls) < max_pages

\* any(path in url.lower() for path in problematic_paths)
ProblematicUrls ==
    { u \in CrawlUrls : \E path \in problematic_paths : Contains(Lower(u), path) }

IsProblematic(url) == url \in ProblematicUrls

CrawlInit ==
    /\ start_url \in StartUrls
    /\ max_pages \in 0..MaxPages
    /\ have_rapidfuzz \in BOOLEAN
    /\ urls_to_crawl = << start_url >>
    /\ crawled_urls = {}
    /\ found_subdomains = {}
    /\ found_external_domains = {}
    /\ soup = Unbound
    /\ cur_url = ""
    /\ pending_links = << >>
    /\ crawl_pc = "loop"

\* Lines 258-264: pop the next URL; one already crawled is dropped, any other
\* is added to crawled_urls. `body' is what the rest of the iteration does to
\* soup, cur_url, pending_links and crawl_pc for a URL not crawled before.
PopThen(body) ==
    /\ crawl_pc = "loop"
    /\ LoopCondition
    /\ urls_to_crawl' = Tail(urls_to_crawl)
    /\ IF Head(urls_to_crawl) \in crawled_urls
       THEN UNCHANGED << crawled_urls, soup, cur_url, pending_links, crawl_pc >>
       ELSE /\ crawled_urls' = crawled_urls \cup { Head(urls_to_crawl) }
            /\ body
    /\ UNCHANGED << start_url, max_pages, have_rapidfuzz, found_subdomains,
                    found_external_domains >>

\* Lines 268-271: a URL holding an authentication-gated path is skipped after
\* it was added to crawled_urls.
CrawlSkipAuth ==
    /\ crawl_pc = "loop" /\ LoopCondition
    /\ IsProblematic(Head(urls_to_crawl))
    /\ PopThen(UNCHANGED << soup, cur_url, pending_links, crawl_pc >>)
    /\ UNCHANGED exceptCrawl

\* Lines 302-331: navigation fails (a failed redirect, another navigation
\* error, no response, status >= 400, non-HTML content, an unexpected
\* exception): continue with the next URL.
CrawlNavSkip ==
    /\ crawl_pc = "loop" /\ LoopCondition
    /\ ~IsProblematic(Head(urls_to_crawl))
    /\ PopThen(UNCHANGED << soup, cur_url, pending_links, crawl_pc >>)
    /\ UNCHANGED exceptCrawl

\* Lines 281-327: the page loads (or an interrupting redirect leaves a page
\* to read): soup is the parsed content, and the link loop starts.
CrawlLoadPage ==
    /\ crawl_pc = "loop" /\ LoopCondition
    /\ ~IsProblematic(Head(urls_to_crawl))
    /\ \E content \in Pages :
          PopThen(/\ soup' = content
                  /\ cur_url' = Head(urls_to_crawl)
                  /\ pending_links' = content
                  /\ crawl_pc' = "links")
    /\ UNCHANGED exceptCrawl

\* Lines 288-290: net::ERR_NAME_NOT_RESOLVED is logged and, with no continue,
\* control falls out of the try statement into the link loop of line 338:
\* soup is the previous page's, or unbound on the first page, and then
\* crawl_domains raises UnboundLocalError.
CrawlDnsFailure ==
    /\ crawl_pc = "loop" /\ LoopCondition
    /\ ~IsProblematic(Head(urls_to_crawl))
    /\ PopThen(IF soup = Unbound
               THEN /\ crawl_pc' = "raised"
                    /\ UNCHANGED << soup, cur_url, pending_links >>
               ELSE /\ cur_url' = Head(urls_to_crawl)
                    /\ pending_links' = soup
                    /\ crawl_pc' = "links"
                    /\ UNCHANGED soup)
    /\ UNCHANGED exceptCrawl

\* Lines 339-347: the link as the loop sees it: "" when the tag is skipped.
ResolveLink(url, link) ==
    IF link = "" \/ \E pre \in { "mailto:", "tel:", "javascript:", "#" } : StartsWith(link, pre)
    THEN ""
    ELSE urljoin(url, link)

Resolved == [ u \in CrawlUrls |-> [ h \in Hrefs |-> ResolveLink(u, h) ] ]

\* any(absolute_link.lower().endswith(ext) for ext in ignored_extensions)
IgnoredUrls ==
    { u \in CrawlUrls : \E ext \in ignored_extensions : EndsWith(Lower(u), ext) }

HasIgnoredExtension(absolute_link) == absolute_link \in IgnoredUrls

\* An enqueue test that forgets the membership tests of lines 357-358
Enqueues_no_membership(absolute_link, crawled, queue, rapidfuzz) ==
    /\ ~HasIgnoredExtension(absolute_link)
    /\ ~should_skip_url(absolute_link, crawled, queue, rapidfuzz)

\* Lines 357-369: whether the link is appended to urls_to_crawl.
Enqueues(absolute_link, crawled, queue, rapidfuzz) ==
    /\ absolute_link \notin crawled
    /\ absolute_link \notin Range(queue)
    /\ ~HasIgnoredExtension(absolute_link)
    /\ ~should_skip_url(absolute_link, crawled, queue, rapidfuzz)

\* Lines 338-375: one pass of the link loop.
CrawlLink ==
    /\ crawl_pc = "links"
    /\ pending_links # << >>
    /\ LET absolute_link == Resolved[cur_url][Head(pending_links)]
           domain == IF absolute_link = "" THEN "" ELSE NetlocOf[absolute_link]
       IN  IF absolute_link = "" \/ domain = ""
           THEN UNCHANGED << urls_to_crawl, found_subdomains, found_external_domains >>
           ELSE IF EndsWith(domain, base_domain)
           THEN /\ found_subdomains' =
                      IF domain # base_domain THEN found_subdomains \cup { domain }
                      ELSE found_subdomains
                /\ urls_to_crawl' =
                      IF Enqueues(absolute_link, crawled_urls, urls_to_crawl, have_rapidfuzz)
                      THEN Append(urls_to_crawl, absolute_link)
                      ELSE urls_to_crawl
                /\ UNCHANGED found_external_domains
           ELSE /\ found_external_domains' = found_external_domains \cup { domain }
                /\ UNCHANGED << urls_to_crawl, found_subdomains >>
    /\ pending_links' = Tail(pending_links)
    /\ UNCHANGED << start_url, max_pages, have_rapidfuzz, crawled_urls, soup, cur_url,
                    crawl_pc >>
    /\ UNCHANGED exceptCrawl

\* Line 377: the link loop ends, back to the while loop.
CrawlEndPage ==
    /\ crawl_pc = "links"
    /\ pending_links = << >>
    /\ crawl_pc' = "loop"
    /\ UNCHANGED << start_url, max_pages, have_rapidfuzz, urls_to_crawl, crawled_urls,
                    found_subdomains, found_external_domains, soup, cur_url,
                    pending_links >>
    /\ UNCHANGED exceptCrawl

\* Lines 257, 379-384: the loop condition fails and crawl_domains returns.
CrawlReturn ==
    /\ crawl_pc = "loop"
    /\ ~LoopCondition
    /\ crawl_pc' = "done"
    /\ UNCHANGED << start_url, max_pages, have_rapidfuzz, urls_to_crawl, crawled_urls,
                    found_subdomains, found_external_domains, soup, cur_url,
                    pending_links >>
    /\ UNCHANGED exceptCrawl

CrawlNext ==
    \/ CrawlSkipAuth
    \/ CrawlNavSkip
    \/ CrawlLoadPage
    \/ CrawlDnsFailure
    \/ CrawlLink
    \/ CrawlEndPage
    \/ CrawlReturn

\* No crawl is running.
CrawlIdle ==
    /\ start_url = ""
    /\ max_pages = 0
    /\ have_rapidfuzz = FALSE
    /\ urls_to_crawl = << >>
    /\ crawled_urls = {}
    /\ found_subdomains = {}
    /\ found_external_domains = {}
    /\ soup = Unbound
    /\ cur_url = ""
    /\ pending_links = << >>
    /\ crawl_pc = "idle"

-----------------------------------------------------------------------------
(* validate_domain_dns_with_retry, check_domain *)

\* The largest max_retries tried (the default of line 489 is 3).
MaxRetriesBound == 3

\* What dns.resolver.resolve does: it answers, or raises NXDOMAIN or NoAnswer
\* (definitive), or raises another error (a timeout, no name server
\* answering).
ResolverOutcomes == { "answer", "NXDOMAIN", "NoAnswer", "Timeout", "NoNameservers" }

Definitive == { "NXDOMAIN", "NoAnswer" }

\* Lines 511, 518: attempt < max_retries - 1
MayRetry == attempt < max_retries - 1

DnsInit ==
    /\ max_retries \in 0..MaxRetriesBound
    /\ conservative_mode \in BOOLEAN
    /\ attempt = 0
    /\ dns_pc = "A"
    /\ dns_result = "none"
    /\ dns_log = << >>
    /\ sleeps = 0
    /\ verdict = "none"

DnsLog(qtype, outcome) ==
    Append(dns_log, [ attempt |-> attempt, qtype |-> qtype, outcome |-> outcome ])

\* Lines 494-501, 517-524: the A lookup of one attempt.
DnsLookupA ==
    /\ dns_pc = "A"
    /\ attempt < max_retries
    /\ \E outcome \in ResolverOutcomes :
          /\ dns_log' = DnsLog("A", outcome)
          /\ IF outcome = "answer"
             THEN dns_pc' = "returned" /\ dns_result' = "True"
             ELSE IF outcome \in Definitive
             THEN dns_pc' = "AAAA" /\ UNCHANGED dns_result
             ELSE IF MayRetry
             THEN dns_pc' = "sleep" /\ UNCHANGED dns_result
             ELSE dns_pc' = "returned" /\ dns_result' = "True"
    /\ UNCHANGED << max_retries, conservative_mode, attempt, sleeps, verdict >>
    /\ UNCHANGED exceptDns

\* Lines 502-516: the AAAA lookup, made inside the handler of the A lookup's
\* NXDOMAIN/NoAnswer. An error other than NXDOMAIN/NoAnswer raised here is
\* raised inside an except clause, where the except Exception clause of the
\* same try statement does not apply: it leaves the function.
DnsLookupAAAA ==
    /\ dns_pc = "AAAA"
    /\ \E outcome \in ResolverOutcomes :
          /\ dns_log' = DnsLog("AAAA", outcome)
          /\ IF outcome = "answer"
             THEN dns_pc' = "returned" /\ dns_result' = "True"
             ELSE IF outcome \in Definitive
             THEN IF MayRetry
                  THEN dns_pc' = "sleep" /\ UNCHANGED dns_result
                  ELSE dns_pc' = "returned" /\ dns_result' = "False"
             ELSE dns_pc' = "raised" /\ dns_result' = "raised"
    /\ UNCHANGED << max_retries, conservative_mode, attempt, sleeps, verdict >>
    /\ UNCHANGED exceptDns

\* Lines 513-514, 520-521: asyncio.sleep(retry_delay), then the next attempt.
DnsSleep ==
    /\ dns_pc = "sleep"
    /\ sleeps' = sleeps + 1
    /\ attempt' = attempt + 1
    /\ dns_pc' = "A"
    /\ UNCHANGED << max_retries, conservative_mode, dns_result, dns_log, verdict >>
    /\ UNCHANGED exceptDns

\* Line 526: the for loop ends without a return (max_retries is 0).
DnsLoopExhausted ==
    /\ dns_pc = "A"
    /\ attempt >= max_retries
    /\ dns_pc' = "returned"
    /\ dns_result' = "False"
    /\ UNCHANGED << max_retries, conservative_mode, attempt, dns_log, sleeps, verdict >>
    /\ UNCHANGED exceptDns

\* Lines 591-599 (and 1231-1238): check_domain returns the validator's result,
\* or conservative_mode when the validator raised.
DnsCheckDomain ==
    /\ dns_pc \in { "returned", "raised" }
    /\ verdict = "none"
    /\ verdict' = IF dns_result = "True" THEN "valid"
                  ELSE IF dns_result = "False" THEN "dead"
                  ELSE IF conservative_mode THEN "valid" ELSE "dead"
    /\ UNCHANGED << max_retries, conservative_mode, attempt, dns_pc, dns_result,
                    dns_log, sleeps >>
    /\ UNCHANGED exceptDns

DnsNext ==
    \/ DnsLookupA
    \/ DnsLookupAAAA
    \/ DnsSleep
    \/ DnsLoopExhausted
    \/ DnsCheckDomain

\* No validation is running.
DnsIdle ==
    /\ max_retries = 0
    /\ conservative_mode = TRUE
    /\ attempt = 0
    /\ dns_pc = "idle"
    /\ dns_result = "none"
    /\ dns_log = << >>
    /\ sleeps = 0
    /\ verdict = "none"

-----------------------------------------------------------------------------
(* update_output_file_incrementally, create_backup_file *)

\* The domains a run may hold
Domains == { "a.example.com", "b.example.com", "dead.example.com" }

\* A file of the disk: whether it exists, and its lines.
Absent == [ exists |-> FALSE, lines |-> << >> ]
FileOf(lines) == [ exists |-> TRUE, lines |-> lines ]

\* datetime.now() of this run (line 680) and of the run that wrote the file
\* found on disk
current_time == "2026-01-02 00:00:00 UTC"
previous_time == "2026-01-01 00:00:00 UTC"

\* Line 653: f"{output_file}.backup_{timestamp}"
BackupName == "domains.txt.backup_20260102_000000"

\* The arguments the header prints: the defaults of lines 1048-1066, one
\* start URL, no --url-file, --cookies or --log-file.
args == [ start_url |-> "https://ex.co", concurrency |-> "3", pages |-> "10",
          headless |-> TRUE, no_persist_cookies |-> FALSE, dual_stack |-> FALSE ]

input_urls == << "https://ex.co" >>

\* str(bool)
PyBool(b) == IF b THEN "True" ELSE "False"

\* The domains a registry is written with and loaded from: lower-case ones, a
\* host found with capitals in a link, and one under a top-level domain that
\* is not made of letters only
WrittenDomains == { "a.example.com", "b.example.com", "i.RedditStatic.com",
                    "shop.xn--p1ai" }

SortedDomains == [ S \in SUBSET Domains \cup SUBSET WrittenDomains |-> SortedStrings(S) ]

\* A domains_to_write that keeps the dead domains
domains_to_write_keep_dead(existing, dead, new) == existing \cup new

\* Line 675: (existing_domains - dead_domains) | new_domains
domains_to_write(existing, dead, new) == (existing \ dead) \cup new

\* Lines 694-698: the numbered input sources
InputSources == [ i \in DOMAIN input_urls |-> "#   " \o ToString(i) \o ". " \o input_urls[i] ]

\* Lines 717-718, 744-745
BackupLine(backup_name) ==
    IF backup_name = "None" THEN << >> ELSE << "#   Backup file: " \o backup_name >>

\* Lines 689-724: the flat FQDN list
FqdnListLines(domains, total_new, total_removed, backup_name, time) ==
    << "# Organization FQDN List",
       "# Generated by Domain Crawler - excludes third-party domains",
       "# Last updated: " \o time,
       "#",
       "# Input Sources:" >>
    \o InputSources
    \o << "#",
          "# Statistics:",
          "#   Total organization domains: " \o ToString(Cardinality(domains)),
          "#   New domains added this run: " \o ToString(total_new),
          "#   Dead domains removed this run: " \o ToString(total_removed),
          "#   Concurrency level: " \o args.concurrency,
          "#   Max pages per site: " \o args.pages,
          "#",
          "# Script Configuration:",
          "#   Headless mode: " \o PyBool(args.headless),
          "#   Cookie persistence: " \o PyBool(~args.no_persist_cookies),
          "#   Dual-stack mode: " \o PyBool(args.dual_stack) >>
    \o BackupLine(backup_name)
    \o << "#",
          "# Format: One domain per line (FQDN format)",
          "# ================================================",
          "" >>
    \o SortedDomains[domains]

\* Lines 727-756: the detailed report
ReportLines(domains, total_new, total_removed, backup_name, time) ==
    << "# Domain Analysis Report",
       "# Generated by Domain Crawler",
       "# Last updated: " \o time,
       "#",
       "# Input Sources:" >>
    \o InputSources
    \o << "#",
          "# Script Configuration:",
          "#   Concurrency level: " \o args.concurrency,
          "#   Max pages per site: " \o args.pages,
          "#   Headless mode: " \o PyBool(args.headless),
          "#   Cookie persistence: " \o PyBool(~args.no_persist_cookies),
          "#   Dual-stack mode: " \o PyBool(args.dual_stack) >>
    \o BackupLine(backup_name)
    \o << "# ================================================",
          "",
          "## Summary",
          "- Last updated: " \o time,
          "- Total organization domains: " \o ToString(Cardinality(domains)),
          "- New domains added this run: " \o ToString(total_new),
          "- Dead domains removed this run: " \o ToString(total_removed),
          "",
          "## Organization FQDN List" >>
    \o SortedDomains[domains]

\* Lines 686-756: everything written to the temporary file, line by line
FileLines(flat, domains, total_new, total_removed, backup_name, time) ==
    IF flat THEN FqdnListLines(domains, total_new, total_removed, backup_name, time)
    ELSE ReportLines(domains, total_new, total_removed, backup_name, time)

\* The lines this run writes
NewLines ==
    FileLines(fqdn_list,
              domains_to_write(existing_domains, dead_domains, new_domains),
              Cardinality(new_domains), Cardinality(dead_domains), backup_file,
              current_time)

\* What a copy that fails leaves at its destination: a prefix of the source
\* (the empty one, and one cut in the middle, stand for all of them).
PartialCopies(src) ==
    { FileOf(SubSeq(src.lines, 1, k)) : k \in { 0, Len(src.lines) \div 2 } }

\* A cleanup that leaves the temporary file in place
os_remove_nothing(file) == file

\* os.remove(temp_file), line 781
os_remove(file) == Absent

\* The registry a previous run left: none, or one written by these same lines.
PreviousFiles(flat, existing, dead) ==
    { Absent,
      FileOf(FileLines(flat, existing \cup dead, Cardinality(existing \cup dead), 0,
                       "None", previous_time)) }

RecInit ==
    /\ fqdn_list \in BOOLEAN
    /\ existing_domains \in SUBSET Domains
    /\ dead_domains \in SUBSET Domains
    /\ new_domains \in SUBSET (Domains \ existing_domains)
    /\ output_file \in PreviousFiles(fqdn_list, existing_domains, dead_domains)
    /\ output_file.exists \/ (existing_domains = {} /\ dead_domains = {})
    /\ pre_run = output_file
    /\ temp_file = Absent
    /\ backup = Absent
    /\ backup_file = "None"
    /\ lines_written = 0
    /\ faults = {}
    /\ rec_pc = "backup"

RecInputs == << fqdn_list, existing_domains, dead_domains, new_domains, pre_run >>

\* Lines 649-650: nothing to back up.
RecNoBackup ==
    /\ rec_pc = "backup"
    /\ ~output_file.exists
    /\ rec_pc' = "open"
    /\ UNCHANGED << RecInputs, output_file, temp_file, backup, backup_file,
                    lines_written, faults >>
    /\ UNCHANGED exceptRec

\* A create_backup_file that returns the name of a backup it did not write
RecBackup_without_copy ==
    /\ rec_pc = "backup"
    /\ output_file.exists
    /\ backup_file' = BackupName
    /\ rec_pc' = "open"
    /\ UNCHANGED << RecInputs, output_file, temp_file, backup, lines_written, faults >>
    /\ UNCHANGED exceptRec

\* Lines 652-659: shutil.copy2(output_file, backup_file) succeeds.
RecBackup ==
    /\ rec_pc = "backup"
    /\ output_file.exists
    /\ backup' = output_file
    /\ backup_file' = BackupName
    /\ rec_pc' = "open"
    /\ UNCHANGED << RecInputs, output_file, temp_file, lines_written, faults >>
    /\ UNCHANGED exceptRec

\* Lines 660-662: the copy raises; create_backup_file returns None.
RecBackupFails ==
    /\ rec_pc = "backup"
    /\ output_file.exists
    /\ backup' \in { Absent } \cup PartialCopies(output_file)
    /\ faults' = faults \cup { "backup" }
    /\ rec_pc' = "open"
    /\ UNCHANGED << RecInputs, output_file, temp_file, backup_file, lines_written >>
    /\ UNCHANGED exceptRec

\* Line 686: open(temp_file, 'w') creates the file, or raises.
RecOpenTemp ==
    /\ rec_pc = "open"
    /\ \/ /\ temp_file' = FileOf(<< >>)
          /\ rec_pc' = "write"
          /\ UNCHANGED faults
       \/ /\ faults' = faults \cup { "open" }
          /\ rec_pc' = "cleanup"
          /\ UNCHANGED temp_file
    /\ UNCHANGED << RecInputs, output_file, backup, backup_file, lines_written >>
    /\ UNCHANGED exceptRec

\* Lines 689-756: one more line reaches the temporary file.
RecWriteLine ==
    /\ rec_pc = "write"
    /\ Len(temp_file.lines) < Len(NewLines)
    /\ temp_file' = FileOf(Append(temp_file.lines, NewLines[Len(temp_file.lines) + 1]))
    /\ lines_written' = lines_written + 1
    /\ UNCHANGED << RecInputs, output_file, backup, backup_file, faults, rec_pc >>
    /\ UNCHANGED exceptRec

\* Lines 689-756, 777: a write (or the closing flush) raises.
RecWriteFails ==
    /\ rec_pc = "write"
    /\ faults' = faults \cup { "write" }
    /\ rec_pc' = "cleanup"
    /\ UNCHANGED << RecInputs, output_file, temp_file, backup, backup_file,
                    lines_written >>
    /\ UNCHANGED exceptRec

\* Line 757: everything is written and the file is closed.
RecCloseTemp ==
    /\ rec_pc = "write"
    /\ Len(temp_file.lines) = Len(NewLines)
    /\ rec_pc' = "move"
    /\ UNCHANGED << RecInputs, output_file, temp_file, backup, backup_file,
                    lines_written, faults >>
    /\ UNCHANGED exceptRec

\* Line 760: shutil.move(temp_file, output_file) renames the temporary file
\* onto the registry (both are in one directory), in one step.
RecMove ==
    /\ rec_pc = "move"
    /\ output_file' = temp_file
    /\ temp_file' = Absent
    /\ rec_pc' = "updated"
    /\ UNCHANGED << RecInputs, backup, backup_file, lines_written, faults >>
    /\ UNCHANGED exceptRec

\* Lines 760, 777: the move raises, nothing is renamed.
RecMoveFails ==
    /\ rec_pc = "move"
    /\ faults' = faults \cup { "move" }
    /\ rec_pc' = "cleanup"
    /\ UNCHANGED << RecInputs, output_file, temp_file, backup, backup_file,
                    lines_written >>
    /\ UNCHANGED exceptRec

\* Lines 779-787: the temporary file is removed if it exists; an error of the
\* removal is swallowed.
RecCleanup ==
    /\ rec_pc = "cleanup"
    /\ \/ /\ temp_file' = IF temp_file.exists THEN os_remove(temp_file) ELSE temp_file
          /\ UNCHANGED faults
       \/ /\ temp_file.exists
          /\ faults' = faults \cup { "remove" }
          /\ UNCHANGED temp_file
    /\ rec_pc' = "restore"
    /\ UNCHANGED << RecInputs, output_file, backup, backup_file, lines_written >>
    /\ UNCHANGED exceptRec

\* Line 790: no backup to restore from.
RecNoRestore ==
    /\ rec_pc = "restore"
    /\ ~(backup_file # "None" /\ backup.exists)
    /\ rec_pc' = "reported"
    /\ UNCHANGED << RecInputs, output_file, temp_file, backup, backup_file,
                    lines_written, faults >>
    /\ UNCHANGED exceptRec

\* Line 793: shutil.copy2(backup_file, output_file) opens the registry for
\* writing, which empties it, or raises before that.
RecRestoreOpen ==
    /\ rec_pc = "restore"
    /\ backup_file # "None" /\ backup.exists
    /\ \/ /\ output_file' = FileOf(<< >>)
          /\ rec_pc' = "restore_copy"
          /\ UNCHANGED faults
       \/ /\ faults' = faults \cup { "restore" }
          /\ rec_pc' = "reported"
          /\ UNCHANGED output_file
    /\ UNCHANGED << RecInputs, temp_file, backup, backup_file, lines_written >>
    /\ UNCHANGED exceptRec

\* Lines 793-795: the copy completes.
RecRestoreCopy ==
    /\ rec_pc = "restore_copy"
    /\ output_file' = backup
    /\ rec_pc' = "reported"
    /\ UNCHANGED << RecInputs, temp_file, backup, backup_file, lines_written, faults >>
    /\ UNCHANGED exceptRec

\* Lines 796-798: the copy raises partway.
RecRestoreFails ==
    /\ rec_pc = "restore_copy"
    /\ output_file' \in PartialCopies(backup)
    /\ faults' = faults \cup { "restore" }
    /\ rec_pc' = "reported"
    /\ UNCHANGED << RecInputs, temp_file, backup, backup_file, lines_written >>
    /\ UNCHANGED exceptRec

\* The process is killed (a signal, a power cut): the files stay as they are.
RecInterrupt ==
    /\ rec_pc \notin { "idle", "updated", "reported", "killed" }
    /\ rec_pc' = "killed"
    /\ UNCHANGED << RecInputs, output_file, temp_file, backup, backup_file,
                    lines_written, faults >>
    /\ UNCHANGED exceptRec

RecNext ==
    \/ RecNoBackup
    \/ RecBackup
    \/ RecBackupFails
    \/ RecOpenTemp
    \/ RecWriteLine
    \/ RecWriteFails
    \/ RecCloseTemp
    \/ RecMove
    \/ RecMoveFails
    \/ RecCleanup
    \/ RecNoRestore
    \/ RecRestoreOpen
    \/ RecRestoreCopy
    \/ RecRestoreFails
    \/ RecInterrupt

\* No registry update is running.
RecIdle ==
    /\ fqdn_list = FALSE
    /\ existing_domains = {}
    /\ dead_domains = {}
    /\ new_domains = {}
    /\ output_file = Absent
    /\ temp_file = Absent
    /\ backup = Absent
    /\ backup_file = "None"
    /\ pre_run = Absent
    /\ lines_written = 0
    /\ faults = {}
    /\ rec_pc = "idle"

-----------------------------------------------------------------------------
(* main: processing the seed URLs of a batch *)

\* The most seed URLs of a batch, and the most browser instances at once
MaxSeeds == 3
MaxConcurrency == 2

Seeds == 1..urls_to_process

\* Line 1164: len(urls_to_process) > 1 and args.concurrency > 1
Concurrent == urls_to_process > 1 /\ concurrency > 1

\* What one process_single_url call ends in: a result dict; None (lines
\* 957-966, 977-982, 1030-1032: an error caught inside the call); or an
\* exception that leaves the call (lines 875-925, 1042: os.makedirs, starting
\* Playwright, launching the browser, closing it, outside any except clause).
TaskOutcomes == { "result", "None", "raised" }

Finished(status) == status \in TaskOutcomes

MainInit ==
    /\ urls_to_process \in 1..MaxSeeds
    /\ concurrency \in 1..MaxConcurrency
    /\ output \in BOOLEAN
    /\ task = [ i \in 1..urls_to_process |-> "pending" ]
    /\ merged = {}
    /\ registry_updated = FALSE
    /\ main_pc = "process"

MainInputs == << urls_to_process, concurrency, output >>

\* Lines 1168-1178, 802: a task of the gather enters the semaphore.
MainTaskStarts ==
    /\ main_pc = "process"
    /\ Concurrent
    /\ \E i \in Seeds :
          /\ task[i] = "pending"
          /\ Cardinality({ j \in Seeds : task[j] = "running" }) < concurrency
          /\ task' = [ task EXCEPT ![i] = "running" ]
    /\ UNCHANGED << MainInputs, merged, registry_updated, main_pc >>
    /\ UNCHANGED exceptMain

\* Line 1178: a task of the gather ends; return_exceptions=True turns an
\* exception into a result of the gather.
MainTaskEnds ==
    /\ main_pc = "process"
    /\ Concurrent
    /\ \E i \in Seeds : \E outcome \in TaskOutcomes :
          /\ task[i] = "running"
          /\ task' = [ task EXCEPT ![i] = outcome ]
    /\ UNCHANGED << MainInputs, merged, registry_updated, main_pc >>
    /\ UNCHANGED exceptMain

\* Lines 1181-1191: the results of the gather are merged.
MainAggregate ==
    /\ main_pc = "process"
    /\ Concurrent
    /\ \A i \in Seeds : Finished(task[i])
    /\ merged' = { i \in Seeds : task[i] = "result" }
    /\ main_pc' = "validate"
    /\ UNCHANGED << MainInputs, task, registry_updated >>
    /\ UNCHANGED exceptMain

\* Lines 1202-1211: the next URL of the sequential loop is processed and its
\* result merged; an exception of process_single_url is caught nowhere and
\* leaves main.
MainSequentialStep ==
    /\ main_pc = "process"
    /\ ~Concurrent
    /\ \E i \in Seeds : \E outcome \in TaskOutcomes :
          /\ task[i] = "pending"
          /\ \A j \in 1..(i - 1) : Finished(task[j])
          /\ task' = [ task EXCEPT ![i] = outcome ]
          /\ merged' = IF outcome = "result" THEN merged \cup { i } ELSE merged
          /\ main_pc' = IF outcome = "raised" THEN "raised" ELSE main_pc
    /\ UNCHANGED << MainInputs, registry_updated >>
    /\ UNCHANGED exceptMain

\* Line 1202: the sequential loop ends.
MainSequentialEnd ==
    /\ main_pc = "process"
    /\ ~Concurrent
    /\ \A i \in Seeds : Finished(task[i])
    /\ main_pc' = "validate"
    /\ UNCHANGED << MainInputs, task, merged, registry_updated >>
    /\ UNCHANGED exceptMain

\* Lines 1213-1319: the discovered domains are validated and printed, and the
\* registry is updated when --output is given.
MainUpdate ==
    /\ main_pc = "validate"
    /\ registry_updated' = output
    /\ main_pc' = "done"
    /\ UNCHANGED << MainInputs, task, merged >>
    /\ UNCHANGED exceptMain

MainNext ==
    \/ MainTaskStarts
    \/ MainTaskEnds
    \/ MainAggregate
    \/ MainSequentialStep
    \/ MainSequentialEnd
    \/ MainUpdate

\* main is not running.
MainIdle ==
    /\ urls_to_process = 0
    /\ concurrency = 1
    /\ output = FALSE
    /\ task = << >>
    /\ merged = {}
    /\ registry_updated = FALSE
    /\ main_pc = "idle"

-----------------------------------------------------------------------------
(* normalize_url and is_similar_url as functions of their arguments *)

\* The URLs normalize_url is applied to: with and without a scheme, hosts
\* with www. in several places, paths with upper case and trailing slashes,
\* queries with repeated keys, blank values and percent-escapes.
NormSchemes == { "", "https://", "HTTP://" }
NormHosts == { "ex.co", "WWW.Ex.co", "www.www.ex.co", "wwwww.w.ex.co" }
NormPaths == { "", "/", "/A/b/" }
NormQueries == { "", "?b=2&a=1", "?A=X&a=y", "?a=%26b%3Dc", "?a=&b=1#top" }

NormUrls ==
    { s \o h \o p \o q : s \in NormSchemes, h \in NormHosts, p \in NormPaths,
                         q \in NormQueries }

NormInit ==
    /\ norm_url \in NormUrls
    /\ normalized = ""
    /\ renormalized = ""
    /\ norm_pc = "start"

\* normalize_url(norm_url)
NormalizeOnce ==
    /\ norm_pc = "start"
    /\ normalized' = normalize_url(norm_url)
    /\ norm_pc' = "once"
    /\ UNCHANGED << norm_url, renormalized >>
    /\ UNCHANGED exceptNorm

\* normalize_url(normalize_url(norm_url))
NormalizeAgain ==
    /\ norm_pc = "once"
    /\ renormalized' = normalize_url(normalized)
    /\ norm_pc' = "twice"
    /\ UNCHANGED << norm_url, normalized >>
    /\ UNCHANGED exceptNorm

NormNext ==
    \/ NormalizeOnce
    \/ NormalizeAgain

NormIdle ==
    /\ norm_url = ""
    /\ normalized = ""
    /\ renormalized = ""
    /\ norm_pc = "idle"

\* The URL pairs is_similar_url is applied to, each with the host it was
\* built from.
SimHosts == { "ex.co", "EX.co", "cdn.net" }
SimRests == { "", "/", "/?feed=hot", "/?feed=new&id=1", "/?id=1",
              "/en-us/p", "/fr-fr/p", "/list", "/lisp?x=1", "/list?x=2" }

SimUrls == { [ host |-> h, url |-> "https://" \o h \o r ] : h \in SimHosts, r \in SimRests }

SimInit ==
    /\ sim_url1 \in SimUrls
    /\ sim_url2 \in SimUrls
    /\ rapidfuzz_installed \in BOOLEAN
    /\ similar12 = FALSE
    /\ similar21 = FALSE
    /\ sim_pc = "start"

\* is_similar_url(sim_url1, sim_url2)
SimilarForward ==
    /\ sim_pc = "start"
    /\ similar12' = is_similar_url(sim_url1.url, sim_url2.url, rapidfuzz_installed)
    /\ sim_pc' = "forward"
    /\ UNCHANGED << sim_url1, sim_url2, rapidfuzz_installed, similar21 >>
    /\ UNCHANGED exceptSim

\* is_similar_url(sim_url2, sim_url1)
SimilarBackward ==
    /\ sim_pc = "forward"
    /\ similar21' = is_similar_url(sim_url2.url, sim_url1.url, rapidfuzz_installed)
    /\ sim_pc' = "both"
    /\ UNCHANGED << sim_url1, sim_url2, rapidfuzz_installed, similar12 >>
    /\ UNCHANGED exceptSim

SimNext ==
    \/ SimilarForward
    \/ SimilarBackward

SimIdle ==
    /\ sim_url1 = [ host |-> "", url |-> "" ]
    /\ sim_url2 = [ host |-> "", url |-> "" ]
    /\ rapidfuzz_installed = FALSE
    /\ similar12 = FALSE
    /\ similar21 = FALSE
    /\ sim_pc = "idle"

-----------------------------------------------------------------------------
(* extract_parent_domains, lines 386-401 *)

\* Line 395: range(1, len(parts) - 1) over a split of n labels that misses the
\* first parent
ParentIndexes_from_second(n) == 2 .. (n - 2)

\* Line 395: range(1, len(parts) - 1), the label indexes a parent starts at
\* (0-based, as in the source)
ParentIndexes(n) == 1 .. (n - 2)

\* Line 396 without the last label
ParentAt_without_tld(parts, i) == Join(SubSeq(parts, i + 1, Len(parts) - 1), ".")

\* Line 396: '.'.join(parts[i:])
ParentAt(parts, i) == Join(SubSeq(parts, i + 1, Len(parts)), ".")

\* Line 398: the parent is kept when it differs from the domain it was cut
\* from and itself splits into two labels or more.
KeepsParent(parent_domain, domain) ==
    parent_domain # domain /\ Len(Split(parent_domain, ".")) >= 2

\* Lines 391-399 for the split of one domain
ParentsOfParts(domain, parts) ==
    IF Len(parts) >= 3
    THEN { p \in { ParentAt(parts, i) : i \in ParentIndexes(Len(parts)) } :
             KeepsParent(p, domain) }
    ELSE {}

\* Lines 390-399 for one domain
ParentsOf(domain) == ParentsOfParts(domain, Split(domain, "."))

\* Lines 386-401: the sorted list of the parents of every domain
extract_parent_domains(domains) ==
    SortedStrings(UNION { ParentsOf(d) : d \in domains })

\* The domains extract_parent_domains is applied to
ParentInputs == { "a.b.c.com", "b.c.com", "c.com", "img.cdn.redditmedia.com",
                  "redditmedia.com", "x.com", "localhost" }

ParentsInit ==
    /\ pd_domains \in SUBSET ParentInputs
    /\ pd_parents = << >>
    /\ pd_pc = "start"

\* One call of extract_parent_domains
ExtractParents ==
    /\ pd_pc = "start"
    /\ pd_parents' = extract_parent_domains(pd_domains)
    /\ pd_pc' = "returned"
    /\ UNCHANGED pd_domains
    /\ UNCHANGED exceptParents

ParentsNext == ExtractParents

ParentsIdle ==
    /\ pd_domains = {}
    /\ pd_parents = << >>
    /\ pd_pc = "idle"

-----------------------------------------------------------------------------
(* categorize_domains, lines 403-487 *)

\* Line 406: base_domain.split('.')[0].lower()
base_name(domain) == Lower(Split(domain, ".")[1])

\* Lines 409-419: the suffixes of the variations, the bare name first
VariationSuffixes ==
    { "", "media", "static", "cdn", "inc", "blog", "help", "api", "assets" }

\* Line 423: base_name[:4]
short_name(name) == SubSeq(name, 1, Min(4, Len(name)))

\* Lines 409-424
variations(name) ==
    { name \o s : s \in VariationSuffixes }
        \cup (IF Len(name) > 4 THEN { short_name(name) } ELSE {})

\* Line 445: domain_parts[-2]
second_level(domain_parts) == domain_parts[Len(domain_parts) - 1]

\* An abbreviated match that compares the second-level label with the
\* four-character short form in both directions
AbbreviatedMatch_short_both_ways(name, domain_parts) ==
    /\ Len(name) > 4
    /\ Len(domain_parts) >= 2
    /\ \/ Contains(second_level(domain_parts), short_name(name))
       \/ Contains(short_name(name), second_level(domain_parts))

\* Lines 441-447 (and 471-476): the special case for abbreviated names
AbbreviatedMatch(name, domain_parts) ==
    /\ Len(name) > 4
    /\ Len(domain_parts) >= 2
    /\ \/ Contains(second_level(domain_parts), short_name(name))
       \/ Contains(name, second_level(domain_parts))

\* Lines 431-447 (and 461-476): is_related / is_org_related of one domain
IsRelated(name, domain) ==
    \/ \E variation \in variations(name) : Contains(Lower(domain), variation)
    \/ AbbreviatedMatch(name, Split(Lower(domain), "."))

\* Line 456 with the third-party domains added
OrganizationDomains_with_third_party(subs, related, third_party) ==
    subs \cup related \cup third_party

\* Line 456: organization_domains = subdomains + related_domains
OrganizationDomains(subs, related, third_party) == subs \cup related

\* The arguments of categorize_domains: the base domain of a crawl, the
\* subdomains it found (they end with the base domain, line 273) and the
\* external domains it found (they do not).
BaseDomains == { "reddit.com", "ex.co" }

SubdomainsOf ==
    [ b \in BaseDomains |->
        IF b = "reddit.com" THEN { "old.reddit.com", "a.b.reddit.com" }
        ELSE { "a.ex.co", "x.y.ex.co" } ]

ExternalDomains ==
    { "redditmedia.com", "i.RedditStatic.com", "redd.it", "t.co", "img.ddit.io",
      "a.google.com" }

CatInit ==
    /\ cat_base_domain \in BaseDomains
    /\ subdomains \in SUBSET SubdomainsOf[cat_base_domain]
    /\ external_domains \in SUBSET ExternalDomains
    /\ related_domains = {}
    /\ third_party_domains = {}
    /\ parent_domains = << >>
    /\ filtered_parent_domains = {}
    /\ cat_pc = "start"

\* Lines 426-452: every external domain is related or third-party
CatClassify ==
    /\ cat_pc = "start"
    /\ related_domains' =
           { d \in external_domains : IsRelated(base_name(cat_base_domain), d) }
    /\ third_party_domains' =
           { d \in external_domains : ~IsRelated(base_name(cat_base_domain), d) }
    /\ cat_pc' = "classified"
    /\ UNCHANGED << cat_base_domain, subdomains, external_domains, parent_domains,
                    filtered_parent_domains >>
    /\ UNCHANGED exceptCat

\* Lines 454-457: the parent candidates of the organization's domains
CatExtractParents ==
    /\ cat_pc = "classified"
    /\ parent_domains' =
           extract_parent_domains(
               OrganizationDomains(subdomains, related_domains, third_party_domains))
    /\ cat_pc' = "extracted"
    /\ UNCHANGED << cat_base_domain, subdomains, external_domains, related_domains,
                    third_party_domains, filtered_parent_domains >>
    /\ UNCHANGED exceptCat

\* Lines 459-480: the candidates that are themselves organization-related
CatFilterParents ==
    /\ cat_pc = "extracted"
    /\ filtered_parent_domains' =
           { p \in Range(parent_domains) : IsRelated(base_name(cat_base_domain), p) }
    /\ cat_pc' = "filtered"
    /\ UNCHANGED << cat_base_domain, subdomains, external_domains, related_domains,
                    third_party_domains, parent_domains >>
    /\ UNCHANGED exceptCat

\* Lines 482-487: the kept parents join the related domains and the three
\* lists are returned.
CatReturn ==
    /\ cat_pc = "filtered"
    /\ related_domains' = related_domains \cup filtered_parent_domains
    /\ cat_pc' = "returned"
    /\ UNCHANGED << cat_base_domain, subdomains, external_domains,
                    third_party_domains, parent_domains, filtered_parent_domains >>
    /\ UNCHANGED exceptCat

CatNext ==
    \/ CatClassify
    \/ CatExtractParents
    \/ CatFilterParents
    \/ CatReturn

CatIdle ==
    /\ cat_base_domain = ""
    /\ subdomains = {}
    /\ external_domains = {}
    /\ related_domains = {}
    /\ third_party_domains = {}
    /\ parent_domains = << >>
    /\ filtered_parent_domains = {}
    /\ cat_pc = "idle"

-----------------------------------------------------------------------------
(* The result of one seed URL: lines 999-1025, and process_single_url,
   lines 800-848 *)

\* categorize_domains as a function of its arguments: the three lists of
\* line 487, as sets
categorize_domains(base, subs, ext) ==
    [ related_domains |->
          { d \in ext : IsRelated(base_name(base), d) }
              \cup { p \in Range(extract_parent_domains(
                         OrganizationDomains(subs,
                             { d \in ext : IsRelated(base_name(base), d) },
                             { d \in ext : ~IsRelated(base_name(base), d) }))) :
                       IsRelated(base_name(base), p) },
      third_party_domains |-> { d \in ext : ~IsRelated(base_name(base), d) },
      parent_domains |->
          { p \in Range(extract_parent_domains(
                OrganizationDomains(subs,
                    { d \in ext : IsRelated(base_name(base), d) },
                    { d \in ext : ~IsRelated(base_name(base), d) }))) :
              IsRelated(base_name(base), p) } ]

\* Lines 1003-1008: the categories, empty when no external domain was found
Categories(base, subs, ext) ==
    IF ext # {} THEN categorize_domains(base, subs, ext)
    ELSE [ related_domains |-> {}, third_party_domains |-> {}, parent_domains |-> {} ]

\* A dict whose consolidated set takes in the external domains as well
ResultDict_with_external(url, base, subs, ext, cats) ==
    [ outcome |-> "result",
      url |-> url,
      subdomains |-> subs,
      external_domains |-> ext,
      related_domains |-> cats.related_domains,
      parent_domains |-> cats.parent_domains,
      consolidated_fqdns |->
          subs \cup ext \cup cats.parent_domains \cup cats.related_domains \cup { base } ]

\* Lines 1018-1025: the dict returned for a URL, its lists as sets
ResultDict(url, base, subs, ext, cats) ==
    [ outcome |-> "result",
      url |-> url,
      subdomains |-> subs,
      external_domains |-> ext,
      related_domains |-> cats.related_domains,
      parent_domains |-> cats.parent_domains,
      consolidated_fqdns |->
          subs \cup cats.parent_domains \cup cats.related_domains \cup { base } ]

\* Lines 999-1025 for the subdomains and external domains found at a URL
ResultOf(url, subs, ext) ==
    ResultDict(url, Replace(urlparse(url).netloc, "www.", ""), subs, ext,
               Categories(Replace(urlparse(url).netloc, "www.", ""), subs, ext))

\* What stands for a call that returned None, raised, or was not made
NoResult(how) ==
    [ outcome |-> how, url |-> "", subdomains |-> {}, external_domains |-> {},
      related_domains |-> {}, parent_domains |-> {}, consolidated_fqdns |-> {} ]

None == NoResult("None")
Raised == NoResult("raised")
NotCalled == NoResult("not called")

\* The truth value of a returned value: a dict with keys is true, None is not
Truthy(result) == result.outcome = "result"

\* Line 807
HasProtocol(url) == StartsWith(url, "http://") \/ StartsWith(url, "https://")

\* Lines 806-808
WithProtocol(url) == IF HasProtocol(url) THEN url ELSE "https://" \o url

\* The seed URLs, and what a sub-invocation can find at them
SeedUrls == { "reddit.com", "https://www.reddit.com" }
FoundSubdomains == { {}, { "old.reddit.com" }, { "a.b.reddit.com" } }
FoundExternal == { {}, { "redd.it" }, { "a.google.com", "i.RedditStatic.com" } }

\* The values process_single_url_with_ip_version can return for a URL
ReturnValues(url) ==
    { ResultOf(url, subs, ext) : subs \in FoundSubdomains, ext \in FoundExternal }
        \cup { None }

\* Lines 822-829: the field-wise union of two results
Combined(ipv4, ipv6) ==
    [ outcome |-> "result",
      url |-> ipv4.url,
      subdomains |-> ipv4.subdomains \cup ipv6.subdomains,
      external_domains |-> ipv4.external_domains \cup ipv6.external_domains,
      related_domains |-> ipv4.related_domains \cup ipv6.related_domains,
      parent_domains |-> ipv4.parent_domains \cup ipv6.parent_domains,
      consolidated_fqdns |-> ipv4.consolidated_fqdns \cup ipv6.consolidated_fqdns ]

DsInit ==
    /\ ds_url \in SeedUrls
    /\ dual_stack \in BOOLEAN
    /\ ipv4_result = NotCalled
    /\ ipv6_result = NotCalled
    /\ ds_returned = NotCalled
    /\ ds_pc = "start"

\* Lines 802-814: the protocol is added, then the mode is chosen
DsStart ==
    /\ ds_pc = "start"
    /\ ds_url' = WithProtocol(ds_url)
    /\ ds_pc' = IF dual_stack THEN "ipv4" ELSE "single"
    /\ UNCHANGED << dual_stack, ipv4_result, ipv6_result, ds_returned >>
    /\ UNCHANGED exceptDs

\* Line 817: the IPv4 sub-invocation returns
DsIPv4Returns ==
    /\ ds_pc = "ipv4"
    /\ \E r \in ReturnValues(ds_url) : ipv4_result' = r
    /\ ds_pc' = "ipv6"
    /\ UNCHANGED << ds_url, dual_stack, ipv6_result, ds_returned >>
    /\ UNCHANGED exceptDs

\* Line 817: the IPv4 sub-invocation raises (lines 859, 865, 908, 924-925 and
\* 1043 are outside every except clause); nothing catches it here, so
\* process_single_url raises too.
DsIPv4Raises ==
    /\ ds_pc = "ipv4"
    /\ ipv4_result' = Raised
    /\ ds_returned' = Raised
    /\ ds_pc' = "done"
    /\ UNCHANGED << ds_url, dual_stack, ipv6_result >>
    /\ UNCHANGED exceptDs

\* Line 818: the IPv6 sub-invocation returns
DsIPv6Returns ==
    /\ ds_pc = "ipv6"
    /\ \E r \in ReturnValues(ds_url) : ipv6_result' = r
    /\ ds_pc' = "combine"
    /\ UNCHANGED << ds_url, dual_stack, ipv4_result, ds_returned >>
    /\ UNCHANGED exceptDs

\* Line 818: the IPv6 sub-invocation raises
DsIPv6Raises ==
    /\ ds_pc = "ipv6"
    /\ ipv6_result' = Raised
    /\ ds_returned' = Raised
    /\ ds_pc' = "done"
    /\ UNCHANGED << ds_url, dual_stack, ipv4_result >>
    /\ UNCHANGED exceptDs

\* Lines 821-845
DsCombine ==
    /\ ds_pc = "combine"
    /\ ds_returned' =
           IF Truthy(ipv4_result) /\ Truthy(ipv6_result)
           THEN Combined(ipv4_result, ipv6_result)
           ELSE IF Truthy(ipv4_result) THEN ipv4_result
           ELSE IF Truthy(ipv6_result) THEN ipv6_result
           ELSE None
    /\ ds_pc' = "done"
    /\ UNCHANGED << ds_url, dual_stack, ipv4_result, ipv6_result >>
    /\ UNCHANGED exceptDs

\* Line 848: the single invocation returns
DsSingleReturns ==
    /\ ds_pc = "single"
    /\ \E r \in ReturnValues(ds_url) : ds_returned' = r
    /\ ds_pc' = "done"
    /\ UNCHANGED << ds_url, dual_stack, ipv4_result, ipv6_result >>
    /\ UNCHANGED exceptDs

\* Line 848: the single invocation raises
DsSingleRaises ==
    /\ ds_pc = "single"
    /\ ds_returned' = Raised
    /\ ds_pc' = "done"
    /\ UNCHANGED << ds_url, dual_stack, ipv4_result, ipv6_result >>
    /\ UNCHANGED exceptDs

DsNext ==
    \/ DsStart
    \/ DsIPv4Returns
    \/ DsIPv4Raises
    \/ DsIPv6Returns
    \/ DsIPv6Raises
    \/ DsCombine
    \/ DsSingleReturns
    \/ DsSingleRaises

DsIdle ==
    /\ ds_url = ""
    /\ dual_stack = FALSE
    /\ ipv4_result = NotCalled
    /\ ipv6_result = NotCalled
    /\ ds_returned = NotCalled
    /\ ds_pc = "idle"

-----------------------------------------------------------------------------
(* should_skip_url_based_on_existing_domains, lines 625-643, as main applies
   it to each seed URL, lines 1125-1135 *)

\* Line 628: parsed_url.netloc.replace('www.', '')
SeedDomain(url) == Replace(urlparse(url).netloc, "www.", "")

\* Lines 625-643: the first component of the returned pair
should_skip_url_based_on_existing_domains(url, existing, dual_stack_on) ==
    IF dual_stack_on THEN FALSE
    ELSE \/ SeedDomain(url) \in existing
         \/ \E existing_domain \in existing :
                EndsWith(SeedDomain(url), "." \o existing_domain)

\* The seed URLs as given on the command line or in the URL file, and the
\* registry entries that passed the DNS validation of line 1122
SkipSeeds == { "ex.co", "https://ex.co", "https://www.ex.co/x", "https://a.ex.co",
               "a.ex.co/x", "https://notex.co", "https://cdn.net/" }
RegistryDomains == { "ex.co", "b.cdn.net", "x.org" }

SkipInit ==
    /\ skip_url \in SkipSeeds
    /\ skip_existing \in SUBSET RegistryDomains
    /\ dual_stack_mode \in BOOLEAN
    /\ should_skip = FALSE
    /\ skip_pc = "start"

\* Lines 1129-1135 for one seed URL
SkipFilter ==
    /\ skip_pc = "start"
    /\ should_skip' = should_skip_url_based_on_existing_domains(
                          skip_url, skip_existing, dual_stack_mode)
    /\ skip_pc' = "filtered"
    /\ UNCHANGED << skip_url, skip_existing, dual_stack_mode >>
    /\ UNCHANGED exceptSkip

SkipNext == SkipFilter

SkipIdle ==
    /\ skip_url = ""
    /\ skip_existing = {}
    /\ dual_stack_mode = FALSE
    /\ should_skip = FALSE
    /\ skip_pc = "idle"

-----------------------------------------------------------------------------
(* find_embedded_domains, lines 110-131, and
   process_single_url_with_ip_version, lines 850-1043 *)

\* A page is the set of "__map" literals of its script tags, each literal the
\* sequence of the domains of its [domain, number] entries.  The pattern of
\* line 114 ends a match at the first "]" that follows the first entry, so
\* json.loads (line 124) decodes the match only when the literal has one entry;
\* with two entries or more it raises JSONDecodeError and the match is dropped
\* (lines 128-129).
Decodes(map) == Len(map) = 1

\* Lines 110-131
find_embedded_domains(html) ==
    SortedStrings({ map[1] : map \in { m \in html : Decodes(m) } })

\* A test of line 988 that never takes the embedded list
UsesEmbedded_never(embedded) == FALSE

\* Line 988: if embedded_domains
UsesEmbedded(embedded) == embedded # << >>

\* The pages a seed URL can show
EmbeddedMaps == { << "a.reddit.com" >>, << "b.reddit.com" >>,
                  << "m.reddit.com", "n.reddit.com" >> }
PageUrls == { "https://reddit.com", "https://www.reddit.com" }

\* What the call found: subdomains and external domains
NothingFound == [ subdomains |-> {}, external_domains |-> {} ]

PageInit ==
    /\ page_url \in PageUrls
    /\ html_content \in SUBSET EmbeddedMaps
    /\ browser = "none"
    /\ embedded_domains = << >>
    /\ crawl_invoked = FALSE
    /\ page_found = NothingFound
    /\ page_returned = NotCalled
    /\ page_error = ""
    /\ page_pc = "start"

\* Lines 852-911: the storage directory is prepared and the browser launched
PageLaunch ==
    /\ page_pc = "start"
    /\ browser' = "open"
    /\ page_pc' = "launched"
    /\ UNCHANGED << page_url, html_content, embedded_domains, crawl_invoked,
                    page_found, page_returned, page_error >>
    /\ UNCHANGED exceptPage

\* Lines 859-911: os.makedirs, os.remove, async_playwright or chromium.launch
\* raises; no except clause is around them.
PageLaunchRaises ==
    /\ page_pc = "start"
    /\ page_returned' = Raised
    /\ page_pc' = "done"
    /\ UNCHANGED << page_url, html_content, browser, embedded_domains,
                    crawl_invoked, page_found, page_error >>
    /\ UNCHANGED exceptPage

\* Lines 913-925: the context and the page are created
PageContext ==
    /\ page_pc = "launched"
    /\ page_pc' = "context"
    /\ UNCHANGED << page_url, html_content, browser, embedded_domains,
                    crawl_invoked, page_found, page_returned, page_error >>
    /\ UNCHANGED exceptPage

\* Lines 924-925 raise: only the outer finally runs (lines 1041-1043)
PageContextRaises ==
    /\ page_pc = "launched"
    /\ browser' = "closed"
    /\ page_returned' = Raised
    /\ page_pc' = "done"
    /\ UNCHANGED << page_url, html_content, embedded_domains, crawl_invoked,
                    page_found, page_error >>
    /\ UNCHANGED exceptPage

\* Lines 927-965: the cookie file cannot be imported; the error is logged and
\* None is returned.
PageCookiesFail ==
    /\ page_pc = "context"
    /\ browser' = "closed"
    /\ page_returned' = None
    /\ page_pc' = "done"
    /\ page_error' = "Error importing cookies"
    /\ UNCHANGED << page_url, html_content, embedded_domains, crawl_invoked,
                    page_found >>
    /\ UNCHANGED exceptPage

\* Lines 967-981: no response, a status of 400 or more, or an exception of
\* goto; None is returned (lines 976, 980, 1027-1029).
PageGotoFails ==
    /\ page_pc = "context"
    /\ browser' = "closed"
    /\ page_returned' = None
    /\ page_pc' = "done"
    /\ page_error' = "Failed to load"
    /\ UNCHANGED << page_url, html_content, embedded_domains, crawl_invoked,
                    page_found >>
    /\ UNCHANGED exceptPage

\* Lines 967-986: the page loads and is searched for an embedded domain list
PageExtract ==
    /\ page_pc = "context"
    /\ embedded_domains' = find_embedded_domains(html_content)
    /\ page_pc' = "extracted"
    /\ UNCHANGED << page_url, html_content, browser, crawl_invoked, page_found,
                    page_returned, page_error >>
    /\ UNCHANGED exceptPage

\* Lines 988-991: the embedded list is the result, nothing is crawled
PageUseEmbedded ==
    /\ page_pc = "extracted"
    /\ UsesEmbedded(embedded_domains)
    /\ page_found' = [ subdomains |-> Range(embedded_domains),
                       external_domains |-> {} ]
    /\ page_pc' = "found"
    /\ UNCHANGED << page_url, html_content, browser, embedded_domains,
                    crawl_invoked, page_returned, page_error >>
    /\ UNCHANGED exceptPage

\* Lines 992-994: crawl_domains is called and returns
PageCrawl ==
    /\ page_pc = "extracted"
    /\ ~UsesEmbedded(embedded_domains)
    /\ crawl_invoked' = TRUE
    /\ \E subs \in FoundSubdomains, ext \in FoundExternal :
           page_found' = [ subdomains |-> subs, external_domains |-> ext ]
    /\ page_pc' = "found"
    /\ UNCHANGED << page_url, html_content, browser, embedded_domains,
                    page_returned, page_error >>
    /\ UNCHANGED exceptPage

\* Lines 992-994 and 1027-1029: crawl_domains is called and raises
PageCrawlRaises ==
    /\ page_pc = "extracted"
    /\ ~UsesEmbedded(embedded_domains)
    /\ crawl_invoked' = TRUE
    /\ browser' = "closed"
    /\ page_returned' = None
    /\ page_pc' = "done"
    /\ page_error' = "Error during processing"
    /\ UNCHANGED << page_url, html_content, embedded_domains, page_found >>
    /\ UNCHANGED exceptPage

\* Lines 996-1025 and the finally clauses of lines 1030-1043
PageReturn ==
    /\ page_pc = "found"
    /\ page_returned' =
           ResultOf(page_url, page_found.subdomains, page_found.external_domains)
    /\ browser' = "closed"
    /\ page_pc' = "done"
    /\ UNCHANGED << page_url, html_content, embedded_domains, crawl_invoked,
                    page_found, page_error >>
    /\ UNCHANGED exceptPage

PageNext ==
    \/ PageLaunch
    \/ PageLaunchRaises
    \/ PageContext
    \/ PageContextRaises
    \/ PageCookiesFail
    \/ PageGotoFails
    \/ PageExtract
    \/ PageUseEmbedded
    \/ PageCrawl
    \/ PageCrawlRaises
    \/ PageReturn

PageIdle ==
    /\ page_url = ""
    /\ html_content = {}
    /\ browser = "none"
    /\ embedded_domains = << >>
    /\ crawl_invoked = FALSE
    /\ page_found = NothingFound
    /\ page_returned = NotCalled
    /\ page_error = ""
    /\ page_pc = "idle"

-----------------------------------------------------------------------------
(* main, lines 1045-1323: one run, from the loading of the registry to its
   update.  A call of update_output_file_incrementally is the only place the
   registry file is written (lines 664-798); how it writes is the subject of
   the registry component above. *)

MaxRunSeeds == 2

\* Line 1230: asyncio.Semaphore(20)
DnsSemaphore == 20

RunSeeds == 1 .. run_seeds

\* A task, of a seed URL or of a DNS validation, is over
TaskOver(status) == status \notin { "pending", "running" }

\* A gather that returns as soon as it is called
GatherComplete_at_once(tasks) == TRUE

\* Lines 1178 and 1251: asyncio.gather returns when every task is over
GatherComplete(tasks) == \A i \in DOMAIN tasks : TaskOver(tasks[i])

\* Line 1164
RunConcurrent ==
    Cardinality({ i \in RunSeeds : seed_task[i] # "skipped" }) > 1 /\ run_concurrency > 1

\* Lines 1181-1191, 1207-1211: the seeds whose result was merged
Merged == { i \in RunSeeds : seed_task[i] = "result" }

RunInit ==
    /\ run_output \in BOOLEAN
    /\ run_dual_stack \in BOOLEAN
    /\ run_concurrency \in 1..MaxConcurrency
    /\ run_seeds \in 1..MaxRunSeeds
    /\ known_seeds = {}
    /\ dead_found = FALSE
    /\ seed_task = [ i \in 1..run_seeds |-> "pending" ]
    /\ dns_task = [ i \in 1..run_seeds |-> "none" ]
    /\ writers = 0
    /\ registry_writes = 0
    /\ run_pc = "load"

RunInputs == << run_output, run_dual_stack, run_concurrency, run_seeds >>

\* Lines 1115-1123: with --output the registry is loaded and its domains are
\* validated; some seeds turn out to be known and some domains may be dead.
RunLoad ==
    /\ run_pc = "load"
    /\ \E known \in SUBSET RunSeeds : \E dead \in BOOLEAN :
          /\ run_output \/ (known = {} /\ ~dead)
          /\ known_seeds' = known
          /\ dead_found' = dead
    /\ run_pc' = "filter"
    /\ UNCHANGED << RunInputs, seed_task, dns_task, writers, registry_writes >>
    /\ UNCHANGED exceptRun

\* Lines 1125-1141: the known seeds are skipped unless dual-stack mode is on
RunFilter ==
    /\ run_pc = "filter"
    /\ seed_task' = [ i \in RunSeeds |->
                        IF i \in known_seeds /\ ~run_dual_stack
                        THEN "skipped" ELSE "pending" ]
    /\ run_pc' = IF known_seeds = RunSeeds /\ ~run_dual_stack
                 THEN "all skipped" ELSE "process"
    /\ UNCHANGED << RunInputs, known_seeds, dead_found, dns_task, writers,
                    registry_writes >>
    /\ UNCHANGED exceptRun

\* Lines 1143-1148: every seed was skipped and no domain is dead; main returns
\* without touching the registry.
RunAllSkippedReturn ==
    /\ run_pc = "all skipped"
    /\ ~(run_output /\ dead_found)
    /\ run_pc' = "done"
    /\ UNCHANGED << RunInputs, known_seeds, dead_found, seed_task, dns_task,
                    writers, registry_writes >>
    /\ UNCHANGED exceptRun

\* Lines 1143-1147: every seed was skipped and some domain is dead; the
\* registry is updated to remove it.
RunAllSkippedUpdate ==
    /\ run_pc = "all skipped"
    /\ run_output /\ dead_found
    /\ writers' = writers + 1
    /\ run_pc' = "writing"
    /\ UNCHANGED << RunInputs, known_seeds, dead_found, seed_task, dns_task,
                    registry_writes >>
    /\ UNCHANGED exceptRun

\* Lines 1168-1178, 802: a task of the gather enters the semaphore
RunTaskStarts ==
    /\ run_pc = "process"
    /\ RunConcurrent
    /\ \E i \in RunSeeds :
          /\ seed_task[i] = "pending"
          /\ Cardinality({ j \in RunSeeds : seed_task[j] = "running" })
                 < run_concurrency
          /\ seed_task' = [ seed_task EXCEPT ![i] = "running" ]
    /\ UNCHANGED << RunInputs, known_seeds, dead_found, dns_task, writers,
                    registry_writes, run_pc >>
    /\ UNCHANGED exceptRun

\* Line 1178: a task of the gather ends
RunTaskEnds ==
    /\ run_pc = "process"
    /\ RunConcurrent
    /\ \E i \in RunSeeds : \E outcome \in TaskOutcomes :
          /\ seed_task[i] = "running"
          /\ seed_task' = [ seed_task EXCEPT ![i] = outcome ]
    /\ UNCHANGED << RunInputs, known_seeds, dead_found, dns_task, writers,
                    registry_writes, run_pc >>
    /\ UNCHANGED exceptRun

\* Lines 1202-1211: the next seed of the sequential loop; an exception of
\* process_single_url leaves main.
RunSequentialStep ==
    /\ run_pc = "process"
    /\ ~RunConcurrent
    /\ \E i \in RunSeeds : \E outcome \in TaskOutcomes :
          /\ seed_task[i] = "pending"
          /\ \A j \in 1..(i - 1) : TaskOver(seed_task[j])
          /\ seed_task' = [ seed_task EXCEPT ![i] = outcome ]
          /\ run_pc' = IF outcome = "raised" THEN "raised" ELSE run_pc
    /\ UNCHANGED << RunInputs, known_seeds, dead_found, dns_task, writers,
                    registry_writes >>
    /\ UNCHANGED exceptRun

\* Lines 1178-1225 and 1202-1225: the gather or the loop is over and the
\* results are merged; the validation of the discovered domains is set up,
\* one task for each (here, one domain for each merged seed).
RunAggregate ==
    /\ run_pc = "process"
    /\ GatherComplete(seed_task)
    /\ dns_task' = [ i \in RunSeeds |->
                       IF seed_task[i] = "result" THEN "pending" ELSE "none" ]
    /\ run_pc' = IF Merged # {} THEN "validate" ELSE "update"
    /\ UNCHANGED << RunInputs, known_seeds, dead_found, seed_task, writers,
                    registry_writes >>
    /\ UNCHANGED exceptRun

\* Lines 1233-1235: a validation enters the semaphore
RunDnsStarts ==
    /\ run_pc = "validate"
    /\ \E i \in RunSeeds :
          /\ dns_task[i] = "pending"
          /\ Cardinality({ j \in RunSeeds : dns_task[j] = "running" }) < DnsSemaphore
          /\ dns_task' = [ dns_task EXCEPT ![i] = "running" ]
    /\ UNCHANGED << RunInputs, known_seeds, dead_found, seed_task, writers,
                    registry_writes, run_pc >>
    /\ UNCHANGED exceptRun

\* Lines 1235-1240: a validation ends, with a verdict in every case
RunDnsEnds ==
    /\ run_pc = "validate"
    /\ \E i \in RunSeeds : \E is_valid \in { "valid", "invalid" } :
          /\ dns_task[i] = "running"
          /\ dns_task' = [ dns_task EXCEPT ![i] = is_valid ]
    /\ UNCHANGED << RunInputs, known_seeds, dead_found, seed_task, writers,
                    registry_writes, run_pc >>
    /\ UNCHANGED exceptRun

\* Lines 1251-1302: the gather of the validations is over; results are printed
RunDnsGather ==
    /\ run_pc = "validate"
    /\ GatherComplete(dns_task)
    /\ run_pc' = "update"
    /\ UNCHANGED << RunInputs, known_seeds, dead_found, seed_task, dns_task,
                    writers, registry_writes >>
    /\ UNCHANGED exceptRun

\* Lines 1304-1319: with --output the registry is updated
RunUpdate ==
    /\ run_pc = "update"
    /\ run_output
    /\ writers' = writers + 1
    /\ run_pc' = "writing"
    /\ UNCHANGED << RunInputs, known_seeds, dead_found, seed_task, dns_task,
                    registry_writes >>
    /\ UNCHANGED exceptRun

\* Line 1305: without --output main ends
RunNoOutput ==
    /\ run_pc = "update"
    /\ ~run_output
    /\ run_pc' = "done"
    /\ UNCHANGED << RunInputs, known_seeds, dead_found, seed_task, dns_task,
                    writers, registry_writes >>
    /\ UNCHANGED exceptRun

\* Lines 1147 and 1319: update_output_file_incrementally returns and main ends
RunUpdateReturns ==
    /\ run_pc = "writing"
    /\ writers' = writers - 1
    /\ registry_writes' = registry_writes + 1
    /\ run_pc' = "done"
    /\ UNCHANGED << RunInputs, known_seeds, dead_found, seed_task, dns_task >>
    /\ UNCHANGED exceptRun

RunNext ==
    \/ RunLoad
    \/ RunFilter
    \/ RunAllSkippedReturn
    \/ RunAllSkippedUpdate
    \/ RunTaskStarts
    \/ RunTaskEnds
    \/ RunSequentialStep
    \/ RunAggregate
    \/ RunDnsStarts
    \/ RunDnsEnds
    \/ RunDnsGather
    \/ RunUpdate
    \/ RunNoOutput
    \/ RunUpdateReturns

RunIdle ==
    /\ run_output = FALSE
    /\ run_dual_stack = FALSE
    /\ run_concurrency = 1
    /\ run_seeds = 0
    /\ known_seeds = {}
    /\ dead_found = FALSE
    /\ seed_task = << >>
    /\ dns_task = << >>
    /\ writers = 0
    /\ registry_writes = 0
    /\ run_pc = "idle"

-----------------------------------------------------------------------------
(* load_existing_domains, lines 532-577, applied to a file written by
   update_output_file_incrementally *)

\* str.strip() for lines whose only white space is the space
RECURSIVE LStrip(_)
LStrip(s) == IF s # "" /\ Head(s) = " " THEN LStrip(Tail(s)) ELSE s

RECURSIVE RStrip(_)
RStrip(s) ==
    IF s # "" /\ Ch(s, Len(s)) = " " THEN RStrip(SubSeq(s, 1, Len(s) - 1)) ELSE s

Strip(s) == LStrip(RStrip(s))

\* The characters of [a-zA-Z0-9.-]
IsDomainCh(c) == IsAlphaCh(c) \/ IsDigitCh(c) \/ c = "." \/ c = "-"

\* Line 564 for a split at the dot of index k: [a-zA-Z0-9.-]+ before it,
\* [a-zA-Z]{2,} after it up to the end
MatchesAt(domain, k) ==
    /\ Ch(domain, k) = "."
    /\ k > 1
    /\ \A i \in 1..(k - 1) : IsDomainCh(Ch(domain, i))
    /\ Len(domain) - k >= 2
    /\ \A i \in (k + 1)..Len(domain) : IsAlphaCh(Ch(domain, i))

\* Line 564: re.match(r'^[a-zA-Z0-9.-]+\.[a-zA-Z]{2,}$', domain)
MatchesDomainFormat(domain) == \E k \in 1..Len(domain) : MatchesAt(domain, k)

\* Lines 548-560: the domain a stripped line stands for, "" when none
DomainOfLine(line) ==
    IF line = "" \/ StartsWith(line, "#") THEN ""
    ELSE IF StartsWith(line, "- ") THEN Strip(SubSeq(line, 3, Len(line)))
    ELSE IF StartsWith(line, "  - ") THEN Strip(SubSeq(line, 5, Len(line)))
    ELSE IF Contains(line, ".") /\ ~StartsWith(line, "##") THEN Strip(line)
    ELSE ""

\* Lines 541-567 for one line of the file: the domains it adds
LoadedFromLine(line) ==
    IF DomainOfLine(Strip(line)) # "" /\ MatchesDomainFormat(DomainOfLine(Strip(line)))
    THEN { Lower(DomainOfLine(Strip(line))) }
    ELSE {}

\* Lines 532-577
load_existing_domains(file) ==
    IF ~file.exists THEN {}
    ELSE UNION { LoadedFromLine(file.lines[i]) : i \in DOMAIN file.lines }

RtInit ==
    /\ rt_fqdn_list \in BOOLEAN
    /\ rt_domains \in SUBSET WrittenDomains
    /\ rt_backup_file \in { "None", BackupName }
    /\ rt_file = Absent
    /\ rt_loaded = {}
    /\ rt_pc = "write"

\* Lines 686-760: the registry is written with the final domain set
RtWrite ==
    /\ rt_pc = "write"
    /\ rt_file' = FileOf(FileLines(rt_fqdn_list, rt_domains, Cardinality(rt_domains),
                                   0, rt_backup_file, current_time))
    /\ rt_pc' = "written"
    /\ UNCHANGED << rt_fqdn_list, rt_domains, rt_backup_file, rt_loaded >>
    /\ UNCHANGED exceptRt

\* Line 1120 of the next run: the registry is loaded
RtLoad ==
    /\ rt_pc = "written"
    /\ rt_loaded' = load_existing_domains(rt_file)
    /\ rt_pc' = "loaded"
    /\ UNCHANGED << rt_fqdn_list, rt_domains, rt_backup_file, rt_file >>
    /\ UNCHANGED exceptRt

RtNext ==
    \/ RtWrite
    \/ RtLoad

RtIdle ==
    /\ rt_fqdn_list = FALSE
    /\ rt_domains = {}
    /\ rt_backup_file = "None"
    /\ rt_file = Absent
    /\ rt_loaded = {}
    /\ rt_pc = "idle"

-----------------------------------------------------------------------------
(* The validation of one batch of domains: validate_existing_domains and   *)
(* the validation of the discovered domains in main                        *)

\* The largest batch tried: one more domain than the larger semaphore admits
MaxBatch == 21

\* Line 589: asyncio.Semaphore(10)
ExistingDnsSemaphore == 10

\* A semaphore that admits the whole batch at once
SemaphoreValue_of_the_batch(kind) == MaxBatch + 1

\* Lines 589, 1229: the value of the semaphore of the batch
SemaphoreValue(kind) ==
    IF kind = "existing" THEN ExistingDnsSemaphore ELSE DnsSemaphore

\* The check_domain tasks of one batch run the same code on different domains:
\* the state of the batch is the number of tasks waiting for the semaphore, the
\* number holding it and the number of results.
ValInit ==
    /\ val_kind \in { "existing", "discovered" }
    /\ val_domains \in 0..MaxBatch
    /\ val_waiting = 0
    /\ val_holding = 0
    /\ val_valid = 0
    /\ val_dead = 0
    /\ val_pc = "start"

\* Lines 583-584, 1225: nothing to validate
ValEmpty ==
    /\ val_pc = "start"
    /\ val_domains = 0
    /\ val_pc' = "returned"
    /\ UNCHANGED << val_kind, val_domains, val_waiting, val_holding, val_valid, val_dead >>
    /\ UNCHANGED exceptVal

\* Lines 602-603, 1241-1242: one task per domain, all handed to gather
ValGatherStarts ==
    /\ val_pc = "start"
    /\ val_domains > 0
    /\ val_waiting' = val_domains
    /\ val_pc' = "gather"
    /\ UNCHANGED << val_kind, val_domains, val_holding, val_valid, val_dead >>
    /\ UNCHANGED exceptVal

\* Lines 592, 1232: async with dns_semaphore, entered while the value is positive
ValAcquire ==
    /\ val_pc = "gather"
    /\ val_waiting > 0
    /\ val_holding < SemaphoreValue(val_kind)
    /\ val_waiting' = val_waiting - 1
    /\ val_holding' = val_holding + 1
    /\ UNCHANGED << val_kind, val_domains, val_valid, val_dead, val_pc >>
    /\ UNCHANGED exceptVal

\* Lines 593-599, 1233-1238: the validation ends and the task returns
\* (domain, is_valid), the semaphore being released on the way out
ValRelease ==
    /\ val_pc = "gather"
    /\ val_holding > 0
    /\ val_holding' = val_holding - 1
    /\ \E is_valid \in BOOLEAN :
          /\ val_valid' = IF is_valid THEN val_valid + 1 ELSE val_valid
          /\ val_dead' = IF is_valid THEN val_dead ELSE val_dead + 1
    /\ UNCHANGED << val_kind, val_domains, val_waiting, val_pc >>
    /\ UNCHANGED exceptVal

\* Lines 603-622, 1242-1260: gather returns when every task has returned
ValGatherEnds ==
    /\ val_pc = "gather"
    /\ val_waiting = 0
    /\ val_holding = 0
    /\ val_pc' = "returned"
    /\ UNCHANGED << val_kind, val_domains, val_waiting, val_holding, val_valid, val_dead >>
    /\ UNCHANGED exceptVal

ValNext ==
    \/ ValEmpty
    \/ ValGatherStarts
    \/ ValAcquire
    \/ ValRelease
    \/ ValGatherEnds

ValIdle ==
    /\ val_kind = "existing"
    /\ val_domains = 0
    /\ val_waiting = 0
    /\ val_holding = 0
    /\ val_valid = 0
    /\ val_dead = 0
    /\ val_pc = "idle"

-----------------------------------------------------------------------------
(* main: the seed URLs of a batch behind the semaphore of browser instances *)

\* The largest --concurrency and the largest number of seed URLs tried: more
\* than the limit of line 1082
MaxRequested == 12
MaxUrls == 12

\* Lines 1082-1084: the most browser instances main allows
MaxBrowserInstances == 10

\* --concurrency is type=int: any integer, among them zero and a negative one
RequestedConcurrency == (0 - 1)..MaxRequested

\* A main that takes --concurrency as given
ClampedConcurrency_as_given(requested) == requested

\* Lines 1082-1086: args.concurrency after the validation of the limit
ClampedConcurrency(requested) ==
    IF requested > MaxBrowserInstances THEN MaxBrowserInstances
    ELSE IF requested < 1 THEN 1
    ELSE requested

\* Line 1164: len(urls_to_process) > 1 and args.concurrency > 1
BtConcurrent == bt_urls > 1 /\ bt_concurrency > 1

\* Lines 1168, 1200: the value of the semaphore handed to process_single_url
BtSemaphore == IF BtConcurrent THEN bt_concurrency ELSE 1

\* The process_single_url calls of one batch run the same code on different
\* URLs: the state of the batch is the number of calls not yet inside the
\* semaphore, the number inside it and the number that ended.
BtInit ==
    /\ bt_requested \in RequestedConcurrency
    /\ bt_urls \in 1..MaxUrls
    /\ bt_concurrency = bt_requested
    /\ bt_waiting = 0
    /\ bt_in_progress = 0
    /\ bt_ended = 0
    /\ bt_pc = "args"

BtInputs == << bt_requested, bt_urls >>

\* Lines 1082-1086, 1164-1174, 1200: the limit is applied and the tasks are made
BtValidateLimit ==
    /\ bt_pc = "args"
    /\ bt_concurrency' = ClampedConcurrency(bt_requested)
    /\ bt_waiting' = bt_urls
    /\ bt_pc' = "process"
    /\ UNCHANGED << BtInputs, bt_in_progress, bt_ended >>
    /\ UNCHANGED exceptBt

\* Lines 1178, 802: a task of the gather enters the semaphore
BtTaskEnters ==
    /\ bt_pc = "process"
    /\ BtConcurrent
    /\ bt_waiting > 0
    /\ bt_in_progress < BtSemaphore
    /\ bt_waiting' = bt_waiting - 1
    /\ bt_in_progress' = bt_in_progress + 1
    /\ UNCHANGED << BtInputs, bt_concurrency, bt_ended, bt_pc >>
    /\ UNCHANGED exceptBt

\* Lines 802-848, 1178: a task of the gather leaves process_single_url, by a
\* return or by an exception that gather keeps as a result
BtTaskLeaves ==
    /\ bt_pc = "process"
    /\ BtConcurrent
    /\ bt_in_progress > 0
    /\ bt_in_progress' = bt_in_progress - 1
    /\ bt_ended' = bt_ended + 1
    /\ UNCHANGED << BtInputs, bt_concurrency, bt_waiting, bt_pc >>
    /\ UNCHANGED exceptBt

\* Lines 1202-1207, 802: the sequential loop awaits the next call
BtSequentialEnters ==
    /\ bt_pc = "process"
    /\ ~BtConcurrent
    /\ bt_waiting > 0
    /\ bt_in_progress < BtSemaphore
    /\ bt_waiting' = bt_waiting - 1
    /\ bt_in_progress' = bt_in_progress + 1
    /\ UNCHANGED << BtInputs, bt_concurrency, bt_ended, bt_pc >>
    /\ UNCHANGED exceptBt

\* Lines 1207-1211: the awaited call returns, or raises and leaves main
BtSequentialLeaves ==
    /\ bt_pc = "process"
    /\ ~BtConcurrent
    /\ bt_in_progress > 0
    /\ bt_in_progress' = bt_in_progress - 1
    /\ bt_ended' = bt_ended + 1
    /\ \E raised \in BOOLEAN : bt_pc' = IF raised THEN "raised" ELSE bt_pc
    /\ UNCHANGED << BtInputs, bt_concurrency, bt_waiting >>
    /\ UNCHANGED exceptBt

\* Lines 1178-1193, 1202: every URL has been processed
BtProcessed ==
    /\ bt_pc = "process"
    /\ bt_waiting = 0
    /\ bt_in_progress = 0
    /\ bt_pc' = "validate"
    /\ UNCHANGED << BtInputs, bt_concurrency, bt_waiting, bt_in_progress, bt_ended >>
    /\ UNCHANGED exceptBt

BtNext ==
    \/ BtValidateLimit
    \/ BtTaskEnters
    \/ BtTaskLeaves
    \/ BtSequentialEnters
    \/ BtSequentialLeaves
    \/ BtProcessed

BtIdle ==
    /\ bt_requested = 1
    /\ bt_urls = 1
    /\ bt_concurrency = 1
    /\ bt_waiting = 0
    /\ bt_in_progress = 0
    /\ bt_ended = 0
    /\ bt_pc = "idle"

-----------------------------------------------------------------------------
(* categorize_domains with its lists kept as lists: lines 426-487 *)

\* sorted(list) for a list of strings, repeated elements kept
RECURSIVE InsertSorted(_, _)
InsertSorted(x, list) ==
    IF list = << >> THEN << x >>
    ELSE IF StrLess(x, Head(list)) THEN << x >> \o list
    ELSE << Head(list) >> \o InsertSorted(x, Tail(list))

RECURSIVE sorted(_)
sorted(list) ==
    IF list = << >> THEN << >> ELSE InsertSorted(Head(list), sorted(Tail(list)))

\* Lines 429-452: the external domains appended to related_domains, in order
RelatedOf(name, external) ==
    SelectSeq(external, LAMBDA domain : IsRelated(name, domain))

\* Lines 429-452: the external domains appended to third_party_domains
ThirdPartyOf(name, external) ==
    SelectSeq(external, LAMBDA domain : ~IsRelated(name, domain))

\* Lines 459-480: the parents kept by the organization test
FilteredParents(name, parents) ==
    SelectSeq(parents, LAMBDA parent : IsRelated(name, parent))

\* A loop that appends every kept parent
RECURSIVE WithParents_all(_, _)
WithParents_all(related, parents) ==
    IF parents = << >> THEN related
    ELSE WithParents_all(Append(related, Head(parents)), Tail(parents))

\* Lines 483-485: a kept parent is appended when it is not in the list yet
RECURSIVE WithParents(_, _)
WithParents(related, parents) ==
    IF parents = << >> THEN related
    ELSE WithParents(IF Head(parents) \in Range(related) THEN related
                     ELSE Append(related, Head(parents)),
                     Tail(parents))

\* The lists crawl_domains returns for the base domain reddit.com (line 384:
\* each is the sorted list of a set)
ClSubdomains == { "old.reddit.com", "a.b.reddit.com" }
ClExternal == { "redditmedia.com", "i.redditmedia.com", "t.co", "a.google.com" }

ClInit ==
    /\ cl_base_domain = "reddit.com"
    /\ cl_subdomains \in { SortedStrings(S) : S \in SUBSET ClSubdomains }
    /\ cl_external_domains \in { SortedStrings(S) : S \in SUBSET ClExternal }
    /\ cl_related = << >>
    /\ cl_third_party = << >>
    /\ cl_filtered = << >>
    /\ cl_returned = << >>
    /\ cl_pc = "start"

ClInputs == << cl_base_domain, cl_subdomains, cl_external_domains >>

\* Lines 426-452
ClClassify ==
    /\ cl_pc = "start"
    /\ cl_related' = RelatedOf(base_name(cl_base_domain), cl_external_domains)
    /\ cl_third_party' = ThirdPartyOf(base_name(cl_base_domain), cl_external_domains)
    /\ cl_pc' = "classified"
    /\ UNCHANGED << ClInputs, cl_filtered, cl_returned >>
    /\ UNCHANGED exceptCl

\* Lines 454-480
ClFilterParents ==
    /\ cl_pc = "classified"
    /\ cl_filtered' =
           FilteredParents(base_name(cl_base_domain),
               extract_parent_domains(
                   OrganizationDomains(Range(cl_subdomains), Range(cl_related),
                                       Range(cl_third_party))))
    /\ cl_pc' = "filtered"
    /\ UNCHANGED << ClInputs, cl_related, cl_third_party, cl_returned >>
    /\ UNCHANGED exceptCl

\* Lines 482-485
ClAddParents ==
    /\ cl_pc = "filtered"
    /\ cl_related' = WithParents(cl_related, cl_filtered)
    /\ cl_pc' = "added"
    /\ UNCHANGED << ClInputs, cl_third_party, cl_filtered, cl_returned >>
    /\ UNCHANGED exceptCl

\* Line 487
ClReturn ==
    /\ cl_pc = "added"
    /\ cl_returned' = << sorted(cl_related), sorted(cl_third_party), sorted(cl_filtered) >>
    /\ cl_pc' = "returned"
    /\ UNCHANGED << ClInputs, cl_related, cl_third_party, cl_filtered >>
    /\ UNCHANGED exceptCl

ClNext ==
    \/ ClClassify
    \/ ClFilterParents
    \/ ClAddParents
    \/ ClReturn

ClIdle ==
    /\ cl_base_domain = ""
    /\ cl_subdomains = << >>
    /\ cl_external_domains = << >>
    /\ cl_related = << >>
    /\ cl_third_party = << >>
    /\ cl_filtered = << >>
    /\ cl_returned = << >>
    /\ cl_pc = "idle"

-----------------------------------------------------------------------------
(* main: the discovered domains on their way to the registry, lines        *)
(* 1115-1123 and 1220-1319                                                 *)

\* What gather returns for one check_discovered_domain task: (domain, True),
\* (domain, False), or an exception kept as a result
DiscoveredVerdicts == { "valid", "dead", "exception" }

\* A selection that keeps every discovered domain
ValidDiscovered_all(discovered, verdicts) == discovered

\* Lines 1244-1259: the discovered domains whose result is (domain, True)
ValidDiscovered(discovered, verdicts) ==
    { domain \in discovered : verdicts[domain] = "valid" }

\* Line 1307: set(final_consolidated_fqdns) - existing_domains
NewDomainsOf(final_consolidated_fqdns, existing) == final_consolidated_fqdns \ existing

FlInit ==
    /\ fl_output \in BOOLEAN
    /\ fl_registry \in IF fl_output THEN SUBSET Domains ELSE { {} }
    /\ fl_existing = {}
    /\ fl_dead = {}
    /\ fl_discovered = {}
    /\ fl_verdicts = << >>
    /\ fl_final = {}
    /\ fl_new_domains = {}
    /\ fl_written = {}
    /\ fl_pc = "load"

FlInputs == << fl_output, fl_registry >>

\* Lines 1115-1123: the registry is loaded and, when it holds a domain,
\* revalidated: every domain comes back valid or dead
FlLoad ==
    /\ fl_pc = "load"
    /\ \E dead \in SUBSET fl_registry :
          /\ fl_dead' = dead
          /\ fl_existing' = fl_registry \ dead
    /\ fl_pc' = "process"
    /\ UNCHANGED << FlInputs, fl_discovered, fl_verdicts, fl_final, fl_new_domains,
                    fl_written >>
    /\ UNCHANGED exceptFl

\* Lines 1158-1222: the seed URLs are processed and their consolidated sets
\* merged
FlProcess ==
    /\ fl_pc = "process"
    /\ fl_discovered' \in SUBSET Domains
    /\ fl_pc' = "validate"
    /\ UNCHANGED << FlInputs, fl_existing, fl_dead, fl_verdicts, fl_final,
                    fl_new_domains, fl_written >>
    /\ UNCHANGED exceptFl

\* Lines 1225-1259: every discovered domain is validated and the valid ones
\* are kept; with nothing discovered nothing is validated
FlValidate ==
    /\ fl_pc = "validate"
    /\ \E verdicts \in [ fl_discovered -> DiscoveredVerdicts ] :
          /\ fl_verdicts' = verdicts
          /\ fl_final' = ValidDiscovered(fl_discovered, verdicts)
    /\ fl_pc' = "output"
    /\ UNCHANGED << FlInputs, fl_existing, fl_dead, fl_discovered, fl_new_domains,
                    fl_written >>
    /\ UNCHANGED exceptFl

\* Lines 1305-1319, 675: the new domains are handed to
\* update_output_file_incrementally, which writes the registry
FlUpdate ==
    /\ fl_pc = "output"
    /\ fl_output
    /\ fl_new_domains' = NewDomainsOf(fl_final, fl_existing)
    /\ fl_written' = domains_to_write(fl_existing, fl_dead,
                                      NewDomainsOf(fl_final, fl_existing))
    /\ fl_pc' = "updated"
    /\ UNCHANGED << FlInputs, fl_existing, fl_dead, fl_discovered, fl_verdicts,
                    fl_final >>
    /\ UNCHANGED exceptFl

\* Line 1305: without --output nothing is written
FlNoOutput ==
    /\ fl_pc = "output"
    /\ ~fl_output
    /\ fl_pc' = "done"
    /\ UNCHANGED << FlInputs, fl_existing, fl_dead, fl_discovered, fl_verdicts,
                    fl_final, fl_new_domains, fl_written >>
    /\ UNCHANGED exceptFl

FlNext ==
    \/ FlLoad
    \/ FlProcess
    \/ FlValidate
    \/ FlUpdate
    \/ FlNoOutput

FlIdle ==
    /\ fl_output = FALSE
    /\ fl_registry = {}
    /\ fl_existing = {}
    /\ fl_dead = {}
    /\ fl_discovered = {}
    /\ fl_verdicts = << >>
    /\ fl_final = {}
    /\ fl_new_domains = {}
    /\ fl_written = {}
    /\ fl_pc = "idle"

-----------------------------------------------------------------------------
(* The specifications *)

vars == << crawlVars, dnsVars, recVars, mainVars, normVars, simVars, parentsVars,
           catVars, dsVars, skipVars, pageVars, runVars, rtVars, valVars, btVars,
           clVars, flVars >>

\* One crawl of one seed URL.
SpecCrawlInit ==
    CrawlInit /\ DnsIdle /\ RecIdle /\ MainIdle /\ NormIdle /\ SimIdle /\
        ParentsIdle /\ CatIdle /\ DsIdle /\ SkipIdle /\ PageIdle /\ RunIdle /\
        RtIdle /\ ValIdle /\ BtIdle /\ ClIdle /\ FlIdle
SpecCrawl == SpecCrawlInit /\ [][CrawlNext]_vars

\* One validation of one domain.
SpecDnsInit ==
    DnsInit /\ CrawlIdle /\ RecIdle /\ MainIdle /\ NormIdle /\ SimIdle /\
        ParentsIdle /\ CatIdle /\ DsIdle /\ SkipIdle /\ PageIdle /\ RunIdle /\
        RtIdle /\ ValIdle /\ BtIdle /\ ClIdle /\ FlIdle
SpecDns == SpecDnsInit /\ [][DnsNext]_vars

\* One update of the registry file.
SpecReconcileInit ==
    RecInit /\ CrawlIdle /\ DnsIdle /\ MainIdle /\ NormIdle /\ SimIdle /\
        ParentsIdle /\ CatIdle /\ DsIdle /\ SkipIdle /\ PageIdle /\ RunIdle /\
        RtIdle /\ ValIdle /\ BtIdle /\ ClIdle /\ FlIdle
SpecReconcile == SpecReconcileInit /\ [][RecNext]_vars

\* One batch of seed URLs.
SpecMainInit ==
    MainInit /\ CrawlIdle /\ DnsIdle /\ RecIdle /\ NormIdle /\ SimIdle /\
        ParentsIdle /\ CatIdle /\ DsIdle /\ SkipIdle /\ PageIdle /\ RunIdle /\
        RtIdle /\ ValIdle /\ BtIdle /\ ClIdle /\ FlIdle
SpecMain == SpecMainInit /\ [][MainNext]_vars

\* normalize_url applied twice to one URL.
SpecNormalizeInit ==
    NormInit /\ CrawlIdle /\ DnsIdle /\ RecIdle /\ MainIdle /\ SimIdle /\
        ParentsIdle /\ CatIdle /\ DsIdle /\ SkipIdle /\ PageIdle /\ RunIdle /\
        RtIdle /\ ValIdle /\ BtIdle /\ ClIdle /\ FlIdle
SpecNormalize == SpecNormalizeInit /\ [][NormNext]_vars

\* is_similar_url applied both ways to one pair of URLs.
SpecSimilarInit ==
    SimInit /\ CrawlIdle /\ DnsIdle /\ RecIdle /\ MainIdle /\ NormIdle /\
        ParentsIdle /\ CatIdle /\ DsIdle /\ SkipIdle /\ PageIdle /\ RunIdle /\
        RtIdle /\ ValIdle /\ BtIdle /\ ClIdle /\ FlIdle
SpecSimilar == SpecSimilarInit /\ [][SimNext]_vars

\* extract_parent_domains applied to one set of domains.
SpecParentsInit ==
    ParentsInit /\ CrawlIdle /\ DnsIdle /\ RecIdle /\ MainIdle /\ NormIdle /\
        SimIdle /\ CatIdle /\ DsIdle /\ SkipIdle /\ PageIdle /\ RunIdle /\ RtIdle /\
        ValIdle /\ BtIdle /\ ClIdle /\ FlIdle
SpecParents == SpecParentsInit /\ [][ParentsNext]_vars

\* categorize_domains applied to the domains of one crawl.
SpecCategorizeInit ==
    CatInit /\ CrawlIdle /\ DnsIdle /\ RecIdle /\ MainIdle /\ NormIdle /\ SimIdle /\
        ParentsIdle /\ DsIdle /\ SkipIdle /\ PageIdle /\ RunIdle /\ RtIdle /\
        ValIdle /\ BtIdle /\ ClIdle /\ FlIdle
SpecCategorize == SpecCategorizeInit /\ [][CatNext]_vars

\* process_single_url for one seed URL.
SpecDualStackInit ==
    DsInit /\ CrawlIdle /\ DnsIdle /\ RecIdle /\ MainIdle /\ NormIdle /\ SimIdle /\
        ParentsIdle /\ CatIdle /\ SkipIdle /\ PageIdle /\ RunIdle /\ RtIdle /\
        ValIdle /\ BtIdle /\ ClIdle /\ FlIdle
SpecDualStack == SpecDualStackInit /\ [][DsNext]_vars

\* The filter of the seed URLs applied to one seed.
SpecSkipInit ==
    SkipInit /\ CrawlIdle /\ DnsIdle /\ RecIdle /\ MainIdle /\ NormIdle /\ SimIdle /\
        ParentsIdle /\ CatIdle /\ DsIdle /\ PageIdle /\ RunIdle /\ RtIdle /\
        ValIdle /\ BtIdle /\ ClIdle /\ FlIdle
SpecSkip == SpecSkipInit /\ [][SkipNext]_vars

\* process_single_url_with_ip_version for one URL.
SpecPageInit ==
    PageInit /\ CrawlIdle /\ DnsIdle /\ RecIdle /\ MainIdle /\ NormIdle /\ SimIdle /\
        ParentsIdle /\ CatIdle /\ DsIdle /\ SkipIdle /\ RunIdle /\ RtIdle /\
        ValIdle /\ BtIdle /\ ClIdle /\ FlIdle
SpecPage == SpecPageInit /\ [][PageNext]_vars

\* One run of main, from the loading of the registry to its update.
SpecRunInit ==
    RunInit /\ CrawlIdle /\ DnsIdle /\ RecIdle /\ MainIdle /\ NormIdle /\ SimIdle /\
        ParentsIdle /\ CatIdle /\ DsIdle /\ SkipIdle /\ PageIdle /\ RtIdle /\
        ValIdle /\ BtIdle /\ ClIdle /\ FlIdle
SpecRun == SpecRunInit /\ [][RunNext]_vars

\* A registry written by one run and loaded by the next.
SpecRoundTripInit ==
    RtInit /\ CrawlIdle /\ DnsIdle /\ RecIdle /\ MainIdle /\ NormIdle /\ SimIdle /\
        ParentsIdle /\ CatIdle /\ DsIdle /\ SkipIdle /\ PageIdle /\ RunIdle /\
        ValIdle /\ BtIdle /\ ClIdle /\ FlIdle
SpecRoundTrip == SpecRoundTripInit /\ [][RtNext]_vars

\* The validation of one batch of domains.
SpecValidateInit ==
    ValInit /\ CrawlIdle /\ DnsIdle /\ RecIdle /\ MainIdle /\ NormIdle /\ SimIdle /\
        ParentsIdle /\ CatIdle /\ DsIdle /\ SkipIdle /\ PageIdle /\ RunIdle /\
        RtIdle /\ BtIdle /\ ClIdle /\ FlIdle
SpecValidate == SpecValidateInit /\ [][ValNext]_vars

\* The event loop runs a task that can run, and a lookup ends within the
\* resolver's lifetime: a step of the batch that stays possible is taken.
SpecValidateFair == SpecValidate /\ WF_vars(ValNext)

\* The seed URLs of one batch behind the semaphore of browser instances.
SpecBatchInit ==
    BtInit /\ CrawlIdle /\ DnsIdle /\ RecIdle /\ MainIdle /\ NormIdle /\ SimIdle /\
        ParentsIdle /\ CatIdle /\ DsIdle /\ SkipIdle /\ PageIdle /\ RunIdle /\
        RtIdle /\ ValIdle /\ ClIdle /\ FlIdle
SpecBatch == SpecBatchInit /\ [][BtNext]_vars

\* categorize_domains applied to the lists of one crawl.
SpecCategorizeListsInit ==
    ClInit /\ CrawlIdle /\ DnsIdle /\ RecIdle /\ MainIdle /\ NormIdle /\ SimIdle /\
        ParentsIdle /\ CatIdle /\ DsIdle /\ SkipIdle /\ PageIdle /\ RunIdle /\
        RtIdle /\ ValIdle /\ BtIdle /\ FlIdle
SpecCategorizeLists == SpecCategorizeListsInit /\ [][ClNext]_vars

\* The discovered domains of one run on their way to the registry.
SpecFlowInit ==
    FlInit /\ CrawlIdle /\ DnsIdle /\ RecIdle /\ MainIdle /\ NormIdle /\ SimIdle /\
        ParentsIdle /\ CatIdle /\ DsIdle /\ SkipIdle /\ PageIdle /\ RunIdle /\
        RtIdle /\ ValIdle /\ BtIdle /\ ClIdle
SpecFlow == SpecFlowInit /\ [][FlNext]_vars

-----------------------------------------------------------------------------
(* Properties of the crawl *)

\* The links of the current page the link loop has gone through
ConsumedLinks == SubSeq(soup, 1, Len(soup) - Len(pending_links))

NormalizedOf == [ u \in CrawlUrls |-> normalize_url(u) ]

\* C1: in every reachable state of a crawl the number of crawled URLs is at
\* most max_pages.
C1_VisitedAtMostMaxPages == Cardinality(crawled_urls) <= max_pages

\* C1 witness: the crawl returned with max_pages URLs crawled and URLs left
\* in the frontier.
C1_Witness ==
    /\ crawl_pc = "done"
    /\ max_pages > 0
    /\ Cardinality(crawled_urls) = max_pages
    /\ Len(urls_to_crawl) >= 2

\* C8: the frontier holds no crawled URL and no URL twice.
C8_FrontierFreshAndDistinct ==
    /\ \A i \in DOMAIN urls_to_crawl : urls_to_crawl[i] \notin crawled_urls
    /\ \A i, j \in DOMAIN urls_to_crawl : urls_to_crawl[i] = urls_to_crawl[j] => i = j

\* C8 witness: the link loop went through a page that links a crawled URL,
\* which only the membership test rejects, and a queued URL.
C8_Witness ==
    /\ crawl_pc = "links"
    /\ \E i, j \in DOMAIN ConsumedLinks :
          /\ Resolved[cur_url][ConsumedLinks[i]] \in crawled_urls
          /\ Resolved[cur_url][ConsumedLinks[i]] \notin
                SimilarTo[have_rapidfuzz][Resolved[cur_url][ConsumedLinks[i]]]
          /\ Resolved[cur_url][ConsumedLinks[j]] \in Range(urls_to_crawl)

\* C9: a step appends a link to the frontier only if the link is neither
\* crawled nor queued and is_similar_url is false between it and every
\* crawled or queued URL.
C9_EnqueueOnlyDissimilar ==
    [][ Len(urls_to_crawl') > Len(urls_to_crawl) =>
          /\ urls_to_crawl'[Len(urls_to_crawl')] \notin crawled_urls
          /\ urls_to_crawl'[Len(urls_to_crawl')] \notin Range(urls_to_crawl)
          /\ \A u \in crawled_urls \cup Range(urls_to_crawl) :
                u \notin SimilarTo[have_rapidfuzz][urls_to_crawl'[Len(urls_to_crawl')]]
      ]_vars

\* C9 witness: of two links of one page the first was appended and the
\* second, a near-duplicate of it, was not.
C9_Witness ==
    /\ crawl_pc = "links"
    /\ Len(ConsumedLinks) = 2
    /\ urls_to_crawl # << >>
    /\ urls_to_crawl[Len(urls_to_crawl)] = Resolved[cur_url][ConsumedLinks[1]]
    /\ Resolved[cur_url][ConsumedLinks[2]] # ""
    /\ Resolved[cur_url][ConsumedLinks[2]] \notin Range(urls_to_crawl) \cup crawled_urls
    /\ Resolved[cur_url][ConsumedLinks[1]]
          \in SimilarTo[have_rapidfuzz][Resolved[cur_url][ConsumedLinks[2]]]

\* C10: two URLs that normalize equal are never both crawled and never both
\* in the frontier.
C10_NormalizeEqualSameResource ==
    /\ \A a, b \in crawled_urls : NormalizedOf[a] = NormalizedOf[b] => a = b
    /\ \A i, j \in DOMAIN urls_to_crawl :
          NormalizedOf[urls_to_crawl[i]] = NormalizedOf[urls_to_crawl[j]] => i = j


(* Properties of the DNS validator *)

\* The lookups of attempt k, in order
LookupsOf(k) == SelectSeq(dns_log, LAMBDA e : e.attempt = k)

\* The attempts made so far
AttemptsMade == { dns_log[i].attempt : i \in DOMAIN dns_log }

\* Attempt k ended in an error that is neither NXDOMAIN nor NoAnswer, raised
\* by the A lookup or by the AAAA lookup after a definitive A failure.
EndedInconclusive(k) ==
    /\ LookupsOf(k) # << >>
    /\ LookupsOf(k)[Len(LookupsOf(k))].outcome \in { "Timeout", "NoNameservers" }

\* Both lookups of attempt k were made and raised NXDOMAIN or NoAnswer.
DefinitivelyAbsent(k) ==
    /\ Len(LookupsOf(k)) = 2
    /\ LookupsOf(k)[1].outcome \in Definitive
    /\ LookupsOf(k)[2].outcome \in Definitive

DnsFinished == dns_pc \in { "returned", "raised" }

\* C5: when every attempt ends in a non-definitive resolver error, the
\* validator returns True: it neither returns False nor raises.
C5_InconclusiveReturnsTrue ==
    (DnsFinished /\ max_retries >= 1 /\ \A k \in AttemptsMade : EndedInconclusive(k))
        => dns_result = "True"

\* C6: the validator returns False only after max_retries attempts that each
\* found the name definitively absent on both lookups.
C6_DeadOnlyAfterMaxRetriesDefinitive ==
    dns_result = "False" =>
        /\ Cardinality(AttemptsMade) = max_retries
        /\ \A k \in 0..(max_retries - 1) : DefinitivelyAbsent(k)

-----------------------------------------------------------------------------
(* Properties of the registry update *)

\* The domains the registry lists: its lines other than blank lines, '#'
\* comment and section lines, and the "- " items of the summary.
ListedDomains(file) ==
    { file.lines[i] : i \in { k \in DOMAIN file.lines :
          /\ file.lines[k] # ""
          /\ ~StartsWith(file.lines[k], "#")
          /\ ~StartsWith(file.lines[k], "- ") } }

\* The registry this run means to write
NewFile == FileOf(NewLines)

\* C2: at every moment of an update, finished, failed or interrupted, the
\* registry holds its pre-run content or the complete new content.
C2_RegistryNeverPartial == output_file = pre_run \/ output_file = NewFile

\* C3: when a write to the temporary file fails (and nothing else of the
\* error handling does), the update ends with the temporary file gone and the
\* registry as it was before the run, and returns instead of raising.
C3_WriteFailureLeavesRegistry ==
    ("write" \in faults /\ faults \subseteq { "write", "backup" }
        /\ rec_pc \in { "updated", "reported" })
    => /\ rec_pc = "reported"
       /\ ~temp_file.exists
       /\ output_file = pre_run

\* C3 witness: a write fails after some but not all lines of the temporary
\* file, over an existing registry that was backed up, and the update has
\* returned.
C3_Witness ==
    /\ rec_pc = "reported"
    /\ faults = { "write" }
    /\ pre_run.exists
    /\ backup_file # "None"
    /\ lines_written > 0
    /\ lines_written < Len(NewLines)
    /\ new_domains # {}

\* C4: the registry of a successful update lists exactly
\* (existing_domains - dead_domains) | new_domains, in both formats.
C4_WrittenSetIsReconciled ==
    rec_pc = "updated" =>
        ListedDomains(output_file) = (existing_domains \ dead_domains) \cup new_domains

\* C4 witness: existing {a, dead}, dead {dead}, new {b} written as a detailed
\* report over an existing registry that was backed up.
C4_Witness ==
    /\ rec_pc = "updated"
    /\ ~fqdn_list
    /\ existing_domains = { "a.example.com", "dead.example.com" }
    /\ dead_domains = { "dead.example.com" }
    /\ new_domains = { "b.example.com" }
    /\ ListedDomains(output_file) = { "a.example.com", "b.example.com" }
    /\ backup = pre_run /\ pre_run.exists

-----------------------------------------------------------------------------
(* Properties of main *)

MainEnded == main_pc \in { "done", "raised" }

\* C7: whatever the seed URLs end in, main ends having processed every seed
\* URL, merged the results and (with --output) updated the registry.
C7_SeedFailureNeverFatal ==
    MainEnded =>
        /\ \A i \in Seeds : Finished(task[i])
        /\ merged = { i \in Seeds : task[i] = "result" }
        /\ registry_updated = output

-----------------------------------------------------------------------------
(* Properties of normalize_url and is_similar_url *)

\* C11: normalize_url is idempotent: normalizing a normalized URL changes
\* nothing.
C11_NormalizeIdempotent == norm_pc = "twice" => renormalized = normalized

\* C12: is_similar_url gives the same answer whichever URL comes first, and
\* answers False for two URLs whose hosts differ when lower-cased.
C12_SimilarSymmetricSameHost ==
    sim_pc = "both" =>
        /\ similar12 = similar21
        /\ Lower(sim_url1.host) # Lower(sim_url2.host) => ~similar12

\* C12 witness: two different URLs, one with a variation parameter and one
\* without a query, on hosts that differ only in case, found similar both ways.
C12_Witness ==
    /\ sim_pc = "both"
    /\ sim_url1.host = "ex.co" /\ sim_url2.host = "EX.co"
    /\ sim_url1.url = "https://ex.co/?feed=hot"
    /\ sim_url2.url = "https://EX.co"
    /\ similar12 /\ similar21

-----------------------------------------------------------------------------
(* Properties of categorize_domains and extract_parent_domains *)

\* The suffixes of a domain that start right after one of its dots
ProperLabelSuffixes(d) ==
    { SubSeq(d, k + 1, Len(d)) : k \in { j \in 1..Len(d) : Ch(d, j) = "." } }

\* The label of a dotted name before its last one, "" when there is none
LabelBeforeLast(d) ==
    IF Len(Split(d, ".")) >= 2 THEN Split(d, ".")[Len(Split(d, ".")) - 1] ELSE ""

HasTwoLabels(d) == Len(Split(d, ".")) >= 2

ContainsVariation(label, d) ==
    \/ \E s \in { "", "media", "static", "cdn", "inc", "blog", "help", "api",
                  "assets" } : Contains(d, label \o s)
    \/ Len(label) > 4 /\ Contains(d, SubSeq(label, 1, 4))

\* The rule as stated: beyond the variations, the second-level label and the
\* four-character short form are substrings of one another.
StatedRelated(label, d) ==
    \/ ContainsVariation(label, Lower(d))
    \/ /\ Len(label) > 4
       /\ HasTwoLabels(d)
       /\ \/ Contains(LabelBeforeLast(Lower(d)), SubSeq(label, 1, 4))
          \/ Contains(SubSeq(label, 1, 4), LabelBeforeLast(Lower(d)))

\* The rule as amended: beyond the variations, the short form occurs in the
\* second-level label or the second-level label occurs in the whole base label.
AmendedRelated(label, d) ==
    \/ ContainsVariation(label, Lower(d))
    \/ /\ Len(label) > 4
       /\ HasTwoLabels(d)
       /\ \/ Contains(LabelBeforeLast(Lower(d)), SubSeq(label, 1, 4))
          \/ Contains(label, LabelBeforeLast(Lower(d)))

BaseLabel == Lower(Split(cat_base_domain, ".")[1])

\* C13 as stated: an external domain is related exactly when it contains a
\* variation, or the base label is longer than 4 and its second-level label and
\* the four-character short form are substrings of one another; every other
\* external domain is third-party.
C13_RelatedIffStatedRule ==
    cat_pc = "returned" =>
        \A d \in external_domains :
            /\ d \in related_domains <=> StatedRelated(BaseLabel, d)
            /\ d \in third_party_domains <=> ~StatedRelated(BaseLabel, d)

\* C13 amended: an external domain is related exactly when it contains a
\* variation, or the base label is longer than 4 and either the short form
\* occurs in the domain's second-level label or that label occurs in the whole
\* base label; every other external domain is third-party.
C13_RelatedIffAmendedRule ==
    cat_pc = "returned" =>
        \A d \in external_domains :
            /\ d \in related_domains <=> AmendedRelated(BaseLabel, d)
            /\ d \in third_party_domains <=> ~AmendedRelated(BaseLabel, d)

\* C13 witness: for reddit.com, t.co is related through its second-level label
\* "t", redd.it through the short form, i.RedditStatic.com through a variation,
\* and a.google.com is third-party.
C13_Witness ==
    /\ cat_pc = "returned"
    /\ cat_base_domain = "reddit.com"
    /\ { "t.co", "redd.it", "i.RedditStatic.com" } \subseteq related_domains
    /\ "a.google.com" \in third_party_domains

\* The external domains classified related
RelatedExternal == related_domains \cap external_domains

\* C14: every parent candidate, and so every parent domain returned, is a proper
\* label-suffix of a subdomain or of an external domain classified related;
\* third-party domains contribute no candidate.
C14_ParentsFromOrganizationOnly ==
    cat_pc \in { "extracted", "filtered", "returned" } =>
        /\ filtered_parent_domains \subseteq Range(parent_domains)
        /\ \A p \in Range(parent_domains) :
               \E d \in subdomains \cup RelatedExternal :
                   p # d /\ p \in ProperLabelSuffixes(d)

\* C14 witness: RedditStatic.com is returned as the parent of the related
\* i.RedditStatic.com while the third-party a.google.com yields no candidate.
C14_Witness ==
    /\ cat_pc = "returned"
    /\ cat_base_domain = "reddit.com"
    /\ "i.RedditStatic.com" \in RelatedExternal
    /\ "a.google.com" \in third_party_domains
    /\ "RedditStatic.com" \in filtered_parent_domains
    /\ "google.com" \notin Range(parent_domains)

\* C15 as stated: the result of extract_parent_domains contains no element of
\* its input and no single-label string.
C15_NoInputNoSingleLabel ==
    pd_pc = "returned" =>
        /\ Range(pd_parents) \cap pd_domains = {}
        /\ \A p \in Range(pd_parents) : Contains(p, ".")

\* C15 amended: every string in the result is a proper label-suffix of an input
\* domain other than the string itself, and none is a single label; the string
\* may be another element of the input.
C15_NeverTheDomainItself ==
    pd_pc = "returned" =>
        \A p \in Range(pd_parents) :
            /\ \E d \in pd_domains : p # d /\ p \in ProperLabelSuffixes(d)
            /\ Contains(p, ".")

\* C15 witness: b.c.com is returned as the parent of a.b.c.com although it is
\* itself in the input.
C15_Witness ==
    /\ pd_pc = "returned"
    /\ { "a.b.c.com", "b.c.com" } \subseteq pd_domains
    /\ "b.c.com" \in Range(pd_parents)

\* The suffixes from label index 1 through n-2: those that keep two labels
SuffixesWithTwoLabels(d) == { s \in ProperLabelSuffixes(d) : Contains(s, ".") }

\* C16: the result is exactly, for each input domain of three labels or more,
\* its suffixes from label index 1 through n-2; the bare last label is never
\* in it and a domain of fewer than three labels contributes nothing.
C16_ExactlyInnerSuffixes ==
    pd_pc = "returned" =>
        Range(pd_parents) = UNION { SuffixesWithTwoLabels(d) : d \in pd_domains }

\* C16 witness: img.cdn.redditmedia.com yields cdn.redditmedia.com and
\* redditmedia.com, and x.com yields nothing.
C16_Witness ==
    /\ pd_pc = "returned"
    /\ pd_domains = { "img.cdn.redditmedia.com", "x.com" }
    /\ pd_parents = << "cdn.redditmedia.com", "redditmedia.com" >>

-----------------------------------------------------------------------------
(* Properties of process_single_url *)

\* C17: in dual-stack mode both sub-invocations are attempted; when exactly one
\* fails, by returning None or by raising, the result of the other is returned
\* alone; when both succeed the field-wise union is returned; when both fail
\* None is returned and nothing is raised.
C17_DualStackIsolatesFailures ==
    (ds_pc = "done" /\ dual_stack) =>
        /\ ipv4_result # NotCalled /\ ipv6_result # NotCalled
        /\ (Truthy(ipv4_result) /\ Truthy(ipv6_result)) =>
               /\ Truthy(ds_returned)
               /\ \A f \in { "subdomains", "external_domains", "related_domains",
                             "parent_domains", "consolidated_fqdns" } :
                      ds_returned[f] = ipv4_result[f] \cup ipv6_result[f]
        /\ (Truthy(ipv4_result) /\ ~Truthy(ipv6_result)) => ds_returned = ipv4_result
        /\ (~Truthy(ipv4_result) /\ Truthy(ipv6_result)) => ds_returned = ipv6_result
        /\ (~Truthy(ipv4_result) /\ ~Truthy(ipv6_result)) => ds_returned = None

-----------------------------------------------------------------------------
(* Properties of the seed filter *)

\* The host of a seed URL, its scheme being optional
SeedHost(url) == urlparse(WithProtocol(url)).netloc

\* The host is a registry entry or a subdomain of one
KnownHost(host, registry) ==
    \/ host \in registry
    \/ \E e \in registry : EndsWith(host, "." \o e)

\* C18: with dual-stack mode off a seed URL, with or without a scheme, is
\* skipped exactly when its host is in the validated registry or is a subdomain
\* of an entry; with dual-stack mode on no seed is skipped.
C18_SkippedIffHostKnown ==
    skip_pc = "filtered" =>
        should_skip = (~dual_stack_mode /\ KnownHost(SeedHost(skip_url), skip_existing))

-----------------------------------------------------------------------------
(* Properties of process_single_url_with_ip_version *)

\* The extractor has run
Extracted == page_pc \in { "extracted", "found" } \/ (page_pc = "done" /\ crawl_invoked)
                 \/ (page_pc = "done" /\ Truthy(page_returned))

\* C19: when the embedded-config extractor yields at least one domain for the
\* initial page, crawl_domains is never invoked and the embedded list is the
\* result; crawl_domains is invoked only after the extractor yielded an empty
\* list.
C19_CrawlOnlyWithoutEmbeddedConfig ==
    /\ find_embedded_domains(html_content) # << >> => ~crawl_invoked
    /\ crawl_invoked => Extracted /\ embedded_domains = << >>
    /\ (Truthy(page_returned) /\ ~crawl_invoked) =>
           /\ page_returned.subdomains = Range(find_embedded_domains(html_content))
           /\ page_returned.external_domains = {}

\* C19 witness: a page with a decodable map and an undecodable one; the call
\* has returned the embedded domain without a crawl.
C19_Witness ==
    /\ page_pc = "done"
    /\ html_content = { << "a.reddit.com" >>, << "m.reddit.com", "n.reddit.com" >> }
    /\ embedded_domains = << "a.reddit.com" >>
    /\ ~crawl_invoked
    /\ Truthy(page_returned)
    /\ page_returned.subdomains = { "a.reddit.com" }

-----------------------------------------------------------------------------
(* Properties of a run *)

\* No seed task and no DNS validation is still to run or running
BatchOver ==
    /\ \A i \in RunSeeds : TaskOver(seed_task[i])
    /\ \A i \in RunSeeds : TaskOver(dns_task[i])

\* The registry is written only at the end of the batch and by one writer
WrittenAtTheEndByOneWriter ==
    /\ writers <= 1
    /\ writers = 1 => registry_writes = 0
    /\ (writers = 1 \/ registry_writes > 0) => BatchOver /\ run_output
    /\ registry_writes > 0 => run_pc = "done"

\* C20 as stated: in any run with a registry the registry is written exactly
\* once, at the very end, after every seed task and every DNS validation is
\* over, and never by two writers at once.
C20_RegistryWrittenExactlyOnce ==
    /\ WrittenAtTheEndByOneWriter
    /\ (run_pc = "done" /\ run_output) => registry_writes = 1

\* C20 amended: the registry is written at most once, at the very end, after
\* every seed task and every DNS validation is over, and never by two writers
\* at once; a run that ends normally writes it exactly once when --output is
\* given and either a seed was not skipped or a dead domain was found, and not
\* at all otherwise.
C20_RegistryWrittenAtMostOnceAtEnd ==
    /\ WrittenAtTheEndByOneWriter
    /\ registry_writes <= 1
    /\ run_pc = "done" =>
           (registry_writes = 1 <=>
               (run_output /\ (dead_found \/ \E i \in RunSeeds : seed_task[i] # "skipped")))

\* C20 witness: two seeds processed by concurrent tasks, one with a result and
\* one that raised, the discovered domain validated, the registry written once.
C20_Witness ==
    /\ run_pc = "done"
    /\ run_seeds = 2
    /\ run_concurrency = 2
    /\ seed_task = << "result", "raised" >>
    /\ dns_task[1] = "valid"
    /\ writers = 0
    /\ registry_writes = 1

-----------------------------------------------------------------------------
(* Properties of the backup *)

\* The update has started to write: the temporary file exists or the registry
\* is no longer the one found
WriteStarted == temp_file.exists \/ output_file # pre_run

\* C21 as stated: when the registry exists, the backup copy is there before
\* the temporary file is written or the registry replaced, and after a
\* successful update a backup holding the pre-run content exists.
C21_BackupAlwaysPrecedesWrite ==
    pre_run.exists =>
        /\ WriteStarted => backup = pre_run
        /\ rec_pc = "updated" => backup = pre_run /\ backup_file = BackupName

\* C21 amended: when the registry exists, nothing is written before the backup
\* was attempted; unless the copy failed, the backup holds the pre-run content
\* from the first write on and after a successful update; when only the copy
\* failed, the update completes all the same, without a backup name.
C21_BackupAttemptPrecedesWrite ==
    pre_run.exists =>
        /\ rec_pc = "backup" => ~WriteStarted /\ ~backup.exists
        /\ (WriteStarted /\ "backup" \notin faults) =>
               backup = pre_run /\ backup_file = BackupName
        /\ (rec_pc = "updated" /\ "backup" \notin faults) =>
               backup = pre_run /\ backup_file = BackupName
        /\ (rec_pc = "updated" /\ "backup" \in faults) =>
               /\ faults = { "backup" }
               /\ backup_file = "None"
               /\ output_file = FileOf(NewLines)

\* C21 witness: a registry listing a.example.com and dead.example.com was
\* updated; the backup holds what the registry held before.
C21_Witness ==
    /\ rec_pc = "updated"
    /\ pre_run.exists
    /\ existing_domains = { "a.example.com" }
    /\ dead_domains = { "dead.example.com" }
    /\ new_domains = { "b.example.com" }
    /\ backup = pre_run
    /\ backup_file = BackupName
    /\ output_file = FileOf(NewLines)
    /\ output_file # pre_run

-----------------------------------------------------------------------------
(* Properties of the registry read back *)

\* C22: loading the file written for a final domain set, as a flat list or as
\* a report, returns exactly that set: no header, summary or section line is
\* loaded as a domain and no written domain is lost.
C22_LoadReturnsWrittenSet == rt_pc = "loaded" => rt_loaded = rt_domains
-----------------------------------------------------------------------------
(* Properties of the non-conservative mode *)

\* C23: with conservative_mode off, a domain whose every attempt ended in a
\* resolver error that is neither NXDOMAIN nor NoAnswer gets the verdict dead.
C23_NonConservativeExcludesInconclusive ==
    ( /\ verdict # "none"
      /\ ~conservative_mode
      /\ max_retries >= 1
      /\ \A k \in AttemptsMade : EndedInconclusive(k) )
        => verdict = "dead"
-----------------------------------------------------------------------------
(* Properties of the validation of a batch *)

ValidationsInProgress == val_holding

AllValidated == val_pc = "returned" /\ val_valid + val_dead = val_domains

\* C24: at every moment at most 10 validations of registry domains and at most
\* 20 validations of discovered domains are in progress, whatever the size of
\* the batch, and in the end every domain of the batch has been validated.
C24_BoundedAndEventuallyAllValidated ==
    /\ [](val_kind = "existing" => ValidationsInProgress <= 10)
    /\ [](val_kind = "discovered" => ValidationsInProgress <= 20)
    /\ <>[]AllValidated

\* A batch of discovered domains larger than the semaphore: 20 validations in
\* progress, the others waiting.
C24_Witness ==
    /\ val_kind = "discovered"
    /\ val_domains > 20
    /\ ValidationsInProgress = 20
    /\ val_waiting > 0
    /\ val_valid + val_dead = 0
-----------------------------------------------------------------------------
(* Properties of the semaphore of browser instances *)

\* The configured concurrency brought into the range 1..10
ConfiguredWithinRange ==
    IF bt_requested > 10 THEN 10 ELSE IF bt_requested < 1 THEN 1 ELSE bt_requested

\* C25: at every moment the number of seed URLs inside process_single_url is
\* at most the configured concurrency brought into 1..10, and at most one when
\* that concurrency is 1 or the batch has a single seed URL.
C25_SeedsInProgressBounded ==
    /\ bt_in_progress <= ConfiguredWithinRange
    /\ (ConfiguredWithinRange = 1 \/ bt_urls = 1) => bt_in_progress <= 1

\* C25 witness: 12 seed URLs with --concurrency 12: ten are in progress and
\* two wait.
C25_Witness ==
    /\ bt_requested = 12
    /\ bt_urls = 12
    /\ bt_in_progress = 10
    /\ bt_waiting = 2
-----------------------------------------------------------------------------
(* Properties of the consolidated FQDN set *)

\* The parents of the subdomains and related domains that pass the
\* organization heuristic of categorize_domains
HeuristicPassingParents(base, subs, related) ==
    { p \in Range(extract_parent_domains(subs \cup related)) :
          IsRelated(base_name(base), p) }

\* C26: the consolidated FQDN set of every result is the union of its
\* subdomains, its related domains, the base domain and the heuristic-passing
\* parents of its subdomains and related domains, on the embedded-config path
\* and on the crawl path, with or without external domains.
C26_ConsolidatedIncludesParents ==
    page_returned.outcome = "result" =>
        page_returned.consolidated_fqdns =
            page_returned.subdomains \cup page_returned.related_domains
                \cup { Replace(urlparse(page_url).netloc, "www.", "") }
                \cup HeuristicPassingParents(
                         Replace(urlparse(page_url).netloc, "www.", ""),
                         page_returned.subdomains, page_returned.related_domains)
-----------------------------------------------------------------------------
(* Properties of the pages the crawl skips and of the links it reads *)

\* C27: a popped URL with an authentication-gated path does not count toward
\* max_pages: a crawl that ends while another page waits in the frontier has
\* gone through max_pages URLs that are not authentication-gated.
C27_SkippedPagesDoNotCount ==
    ( /\ crawl_pc = "done"
      /\ \E i \in DOMAIN urls_to_crawl : ~IsProblematic(urls_to_crawl[i]) )
        => Cardinality(crawled_urls \ ProblematicUrls) >= max_pages

\* C28: after a navigation that fails with a DNS-resolution error the crawl is
\* back at the head of its loop: it reads no links for that URL and does not
\* raise.
C28_DnsFailureContinues ==
    [][ CrawlDnsFailure => crawl_pc' = "loop" ]_vars

\* A proper subdomain of the base domain
IsProperSubdomain(domain) == EndsWith(domain, "." \o base_domain)

\* C29: the subdomain set holds only proper subdomains of the base domain,
\* never the base domain; the external-domain set holds the hosts that are
\* neither; the two sets are disjoint.
C29_HostsClassifiedByDottedSuffix ==
    /\ \A domain \in found_subdomains : IsProperSubdomain(domain)
    /\ base_domain \notin found_subdomains
    /\ \A domain \in found_external_domains :
          domain # base_domain /\ ~IsProperSubdomain(domain)
    /\ found_subdomains \cap found_external_domains = {}

\* The link the link loop is about to read ends in a static-asset extension
ReadsStaticAsset ==
    /\ crawl_pc = "links"
    /\ pending_links # << >>
    /\ \E ext \in ignored_extensions :
          EndsWith(Lower(Resolved[cur_url][Head(pending_links)]), ext)

\* C30: a link to a static asset changes neither the frontier nor the
\* subdomain set nor the external-domain set.
C30_StaticAssetLinksIgnored ==
    [][ ReadsStaticAsset =>
            UNCHANGED << urls_to_crawl, found_subdomains, found_external_domains >>
      ]_vars
-----------------------------------------------------------------------------
(* Properties of the end of the crawl *)

\* A step of the while loop that pops a URL
PopsUrl == crawl_pc = "loop" /\ urls_to_crawl' # urls_to_crawl

\* The condition under which the loop of line 257 is left
FrontierEmptyOrMaxPagesReached ==
    urls_to_crawl = << >> \/ Cardinality(crawled_urls) = max_pages

\* C31: the crawl never stops other than by returning; every iteration of the
\* loop visits one more URL and at most max_pages URLs are visited, so there
\* are at most max_pages iterations; and the crawl returns exactly when the
\* frontier is empty or the visited count has reached max_pages.
C31_ReturnsWithinMaxPagesIterations ==
    /\ [](crawl_pc = "done" \/ ENABLED CrawlNext)
    /\ [](Cardinality(crawled_urls) <= max_pages)
    /\ [](crawl_pc = "done" => FrontierEmptyOrMaxPagesReached)
    /\ [][ PopsUrl => Cardinality(crawled_urls') = Cardinality(crawled_urls) + 1 ]_vars
    /\ [][ (crawl_pc = "loop" /\ FrontierEmptyOrMaxPagesReached) => crawl_pc' = "done" ]_vars
-----------------------------------------------------------------------------
(* Properties of the lists categorize_domains returns *)

NoDuplicates(list) == \A i, j \in DOMAIN list : list[i] = list[j] => i = j

\* C32: in the three lists categorize_domains returns, every parent domain is
\* in the related list, the related list holds no domain twice, and no domain
\* is both in the related and in the third-party list.
C32_ParentsRelatedNoDuplicates ==
    cl_pc = "returned" =>
        /\ Range(cl_returned[3]) \subseteq Range(cl_returned[1])
        /\ NoDuplicates(cl_returned[1])
        /\ Range(cl_returned[1]) \cap Range(cl_returned[2]) = {}

\* C32 witness: a kept parent (redditmedia.com, from i.redditmedia.com) that
\* was already in the related list as an external domain, next to a parent
\* that was not (b.reddit.com) and a third-party domain.
C32_Witness ==
    /\ cl_pc = "returned"
    /\ cl_external_domains = << "a.google.com", "i.redditmedia.com", "redditmedia.com" >>
    /\ cl_subdomains = << "a.b.reddit.com" >>
    /\ cl_returned[3] = << "b.reddit.com", "reddit.com", "redditmedia.com" >>
    /\ cl_returned[1] = << "b.reddit.com", "i.redditmedia.com", "reddit.com",
                           "redditmedia.com" >>
    /\ cl_returned[2] = << "a.google.com" >>
-----------------------------------------------------------------------------
(* Properties of the consolidated set of one seed URL *)

\* The domains categorize_domains classified as third-party in the call that
\* produced the result (lines 1003-1008)
ThirdPartyOfResult(result) ==
    IF Truthy(result)
    THEN Categories(Replace(urlparse(result.url).netloc, "www.", ""),
                    result.subdomains, result.external_domains).third_party_domains
    ELSE {}

-----------------------------------------------------------------------------
(* Properties of the domains written as new *)

\* C34: every domain handed to update_output_file_incrementally as new was
\* discovered and found valid by the validation of this run and is not in the
\* validated registry; a discovered domain found dead is not among the new
\* domains, and is written only if the validated registry holds it.
C34_NewDomainsValidAndUnknown ==
    fl_pc = "updated" =>
        /\ \A domain \in fl_new_domains :
              /\ domain \in fl_discovered
              /\ fl_verdicts[domain] = "valid"
              /\ domain \notin fl_existing
        /\ \A domain \in fl_discovered :
              fl_verdicts[domain] = "dead" =>
                  /\ domain \notin fl_new_domains
                  /\ domain \in fl_written => domain \in fl_existing

\* C34 witness: of three discovered domains one is found dead, one is valid
\* and already in the validated registry, one is valid and new.
C34_Witness ==
    /\ fl_pc = "updated"
    /\ fl_existing = { "a.example.com" }
    /\ fl_discovered = Domains
    /\ fl_verdicts["dead.example.com"] = "dead"
    /\ fl_verdicts["a.example.com"] = "valid"
    /\ fl_verdicts["b.example.com"] = "valid"
    /\ fl_new_domains = { "b.example.com" }
    /\ fl_written = { "a.example.com", "b.example.com" }
-----------------------------------------------------------------------------
(* Properties of URLs with one host and one path *)

\* Two URLs with the same netloc and the same non-empty path component
SameHostSamePath(url1, url2) ==
    /\ urlparse(url1).netloc = urlparse(url2).netloc
    /\ urlparse(url1).path = urlparse(url2).path
    /\ urlparse(url1).path # ""

\* C35: is_similar_url returns true for any two URLs with the same host and
\* the same non-empty path, whatever their query strings are.
C35_SamePathAlwaysSimilar ==
    sim_pc \in { "forward", "both" } =>
        (SameHostSamePath(sim_url1.url, sim_url2.url) => similar12)
-----------------------------------------------------------------------------
(* Properties of the end of validate_domain_dns_with_retry *)

\* The lookups of attempt k for one record type
LookupsOfType(k, qtype) == SelectSeq(LookupsOf(k), LAMBDA e : e.qtype = qtype)

\* C36: validate_domain_dns_with_retry ends with a boolean after at most
\* max_retries attempts, each of at most one A and one AAAA lookup, whatever
\* the resolver answers, and does not return False without a lookup.
C36_EndsWithBooleanAfterLookup ==
    /\ \A k \in AttemptsMade :
          /\ k < max_retries
          /\ Len(LookupsOfType(k, "A")) <= 1
          /\ Len(LookupsOfType(k, "AAAA")) <= 1
    /\ DnsFinished => dns_result \in { "True", "False" }
    /\ (DnsFinished /\ dns_result = "False") => dns_log # << >>
=============================================================================
